---- MODULE Spec2Model ----
(***************************************************************************)
(* HisabX: bill upload (BillSerializer.create), duplicate detection, the   *)
(* debit/credit classification, and the categorization cascade             *)
(* (BillCategorizationService), modelled from backend/bills.               *)
(*                                                                         *)
(* Text values (vendor, company name, invoice number) are sequences of     *)
(* one-character strings, so that lower(), strip(), startswith(), `in` and *)
(* re.sub are computed character by character as Python computes them.    *)
(* Confidences are exact rationals written as integers in units of 1/Unit. *)
(***************************************************************************)
EXTENDS Integers, Sequences, FiniteSets, TLC

VARIABLES bills, files, proc, job

vars == <<bills, files, proc, job>>

-----------------------------------------------------------------------------
(* Python str operations *)

\* Python None / SQL NULL for a text column: a value no text equals.
None == <<"<None>">>

UpperChars == <<"A","B","C","D","E","F","G","H","I","J","K","L","M",
                "N","O","P","Q","R","S","T","U","V","W","X","Y","Z">>

LowerChars == <<"a","b","c","d","e","f","g","h","i","j","k","l","m",
                "n","o","p","q","r","s","t","u","v","w","x","y","z">>

LowerChar(c) ==
    IF \E i \in 1..26 : UpperChars[i] = c
    THEN LowerChars[CHOOSE i \in 1..26 : UpperChars[i] = c]
    ELSE c

UpperChar(c) ==
    IF \E i \in 1..26 : LowerChars[i] = c
    THEN UpperChars[CHOOSE i \in 1..26 : LowerChars[i] = c]
    ELSE c

\* str.lower()
Lower(s) == [i \in 1..Len(s) |-> LowerChar(s[i])]

\* str.upper()
Upper(s) == [i \in 1..Len(s) |-> UpperChar(s[i])]

IsSpace(c) == c = " "

RECURSIVE LStrip(_)
LStrip(s) == IF s # <<>> /\ IsSpace(s[1]) THEN LStrip(Tail(s)) ELSE s

RECURSIVE RStrip(_)
RStrip(s) ==
    IF s # <<>> /\ IsSpace(s[Len(s)]) THEN RStrip(SubSeq(s, 1, Len(s) - 1)) ELSE s

\* str.strip()
Strip(s) == RStrip(LStrip(s))

\* s.startswith(p)
StartsWith(s, p) == Len(p) <= Len(s) /\ SubSeq(s, 1, Len(p)) = p

\* p in s  (substring test)
Contains(s, p) ==
    \E i \in 0..(Len(s) - Len(p)) : SubSeq(s, i + 1, i + Len(p)) = p

\* Python truthiness of an optional text: neither None nor ''.
Truthy(s) == s # None /\ s # <<>>

\* Django's __iexact lookup: equality up to letter case.
IExact(field, value) == field # None /\ Lower(field) = Lower(value)

-----------------------------------------------------------------------------
(* Transaction classification: BillSerializer.create, "Method 1" and       *)
(* "Method 2"                                                              *)

\* recipient_indicators
RecipientIndicators ==
    { <<"i","s","s","u","e","d"," ","t","o">>,
      <<"b","i","l","l"," ","t","o">>,
      <<"b","i","l","l","e","d"," ","t","o">>,
      <<"s","o","l","d"," ","t","o">>,
      <<"c","u","s","t","o","m","e","r">>,
      <<"c","l","i","e","n","t">>,
      <<"a","t","t","e","n","t","i","o","n">>,
      <<"a","t","t","n">> }

\* The alternatives of the business_suffixes regex, in the order the regex
\* lists them; dot: the alternative ends with an optional '.'.
BusinessSuffixes ==
    << [word |-> <<"p","v","t">>, dot |-> TRUE],
       [word |-> <<"l","t","d">>, dot |-> TRUE],
       [word |-> <<"l","i","m","i","t","e","d">>, dot |-> FALSE],
       [word |-> <<"p","r","i","v","a","t","e">>, dot |-> FALSE],
       [word |-> <<"i","n","c">>, dot |-> TRUE],
       [word |-> <<"l","l","c">>, dot |-> FALSE],
       [word |-> <<"c","o","r","p">>, dot |-> TRUE],
       [word |-> <<"c","o","r","p","o","r","a","t","i","o","n">>, dot |-> FALSE],
       [word |-> <<"c","o">>, dot |-> TRUE] >>

\* Length of the match of (pvt\.?|ltd\.?|...|co\.?) at the start of s, 0 if
\* no alternative matches; the first alternative that matches is taken.
SuffixMatchLen(s) ==
    LET hits == {i \in 1..Len(BusinessSuffixes) : StartsWith(s, BusinessSuffixes[i].word)}
    IN  IF hits = {} THEN 0
        ELSE LET i == CHOOSE j \in hits : \A k \in hits : j <= k
                 n == Len(BusinessSuffixes[i].word)
             IN  IF BusinessSuffixes[i].dot /\ Len(s) > n /\ s[n + 1] = "."
                 THEN n + 1 ELSE n

\* re.sub(business_suffixes, '', s, flags=re.IGNORECASE) for
\* business_suffixes = \s*(pvt\.?|...|co\.?)\s* : every leftmost match is
\* removed, wherever in s it stands.
RECURSIVE RemoveBusinessSuffixes(_)
RemoveBusinessSuffixes(s) ==
    IF s = <<>> THEN <<>>
    ELSE LET rest == LStrip(s)
             m == SuffixMatchLen(Lower(rest))
         IN  IF m > 0
             THEN RemoveBusinessSuffixes(LStrip(SubSeq(rest, m + 1, Len(rest))))
             ELSE <<s[1]>> \o RemoveBusinessSuffixes(Tail(s))

min_match_length == 5

\* The test of lines 277-281 on the normalized and the suffix-free names
NamesMatch(vendor_normalized, company_normalized, vendor_clean, company_clean) ==
    /\ Len(company_clean) >= min_match_length
    /\ \/ vendor_normalized = company_normalized
       \/ vendor_clean = company_clean
       \/ /\ StartsWith(vendor_normalized, company_normalized)
          /\ Len(company_normalized) >= min_match_length
       \/ /\ StartsWith(company_normalized, vendor_normalized)
          /\ Len(vendor_normalized) >= min_match_length

\* skip_matching, and the match of the two normalized names
NormalizedNamesMatch(vendor_normalized, company_normalized) ==
    /\ ~ \E indicator \in RecipientIndicators :
             Contains(vendor_normalized, indicator)
    /\ NamesMatch(vendor_normalized, company_normalized,
                  Strip(RemoveBusinessSuffixes(vendor_normalized)),
                  Strip(RemoveBusinessSuffixes(company_normalized)))

\* Method 1: does the vendor name match the user's company name?
VendorNameMatch(vendor, company_name) ==
    /\ Truthy(vendor)
    /\ Truthy(company_name)
    /\ NormalizedNamesMatch(Lower(Strip(vendor)), Lower(Strip(company_name)))

\* re.sub(r'[\s\-]', '', s)
RECURSIVE RemoveSpacesHyphens(_)
RemoveSpacesHyphens(s) ==
    IF s = <<>> THEN <<>>
    ELSE IF IsSpace(s[1]) \/ s[1] = "-" THEN RemoveSpacesHyphens(Tail(s))
         ELSE <<s[1]>> \o RemoveSpacesHyphens(Tail(s))

(* An OCR text is kept as what the code reads from it:                     *)
(*   kind  "empty" (''), "text", or "error" (the 'OCR Error: ...' message) *)
(*   ids   the digit tokens in it, each with labelled = TRUE when a        *)
(*         PAN/VAT/TIN label stands right before the token                 *)
(*   kws   the lower-case words that occur in it                           *)
EmptyText == [kind |-> "empty", ids |-> {}, kws |-> {}]

ErrorText == [kind |-> "error", ids |-> {}, kws |-> {}]

bare_match_length == 9

\* The two pan_vat_patterns searched in the upper-cased text: the labelled
\* pattern ends with the number (no boundary after it); the bare pattern
\* \b<number>\b is tried only for a number of 9 or more characters.
NormalizedPanFound(pan_vat_normalized, ocr_text) ==
    \E o \in ocr_text.ids :
        \/ o.labelled /\ StartsWith(Upper(o.id), pan_vat_normalized)
        \/ /\ Len(pan_vat_normalized) >= bare_match_length
           /\ Upper(o.id) = pan_vat_normalized

\* Method 2: is the user's PAN/VAT number found in the OCR text?
PanVatFound(pan_vat_number, ocr_text) ==
    /\ Truthy(pan_vat_number)
    /\ ocr_text.kind # "empty"
    /\ NormalizedPanFound(RemoveSpacesHyphens(Upper(Strip(pan_vat_number))),
                          ocr_text)

pan_digits == 9

\* extracted_pan_vat: the first tax-ID pattern that matches the upper-cased
\* text; of pan_patterns the Nepal PAN pattern (label, then exactly 9
\* digits) is the one the modelled documents exercise.
ExtractPanVat(ocr_text) ==
    LET hits == {o \in ocr_text.ids : o.labelled /\ Len(o.id) >= pan_digits}
    IN  IF ocr_text.kind = "empty" \/ hits = {} THEN None
        ELSE RemoveSpacesHyphens(SubSeq((CHOOSE o \in hits : TRUE).id, 1, pan_digits))

\* Django's __icontains lookup on ocr_text.
OcrIContains(ocr_text, value) ==
    \E o \in ocr_text.ids : Contains(Lower(o.id), Lower(value))

\* Method 2 run whatever Method 1 found
OwnCompanyBothMethods(by_vendor, ocr_text, user) ==
    IF Truthy(user.pan_vat_number) /\ ocr_text.kind # "empty"
    THEN [is_own_company |-> by_vendor \/ PanVatFound(user.pan_vat_number, ocr_text),
          by_vendor |-> by_vendor, pan_searched |-> TRUE]
    ELSE [is_own_company |-> by_vendor, by_vendor |-> by_vendor,
          pan_searched |-> FALSE]

\* Method 2 runs only when Method 1 found no match
OwnCompanyAfter(by_vendor, ocr_text, user) ==
    IF by_vendor
    THEN [is_own_company |-> TRUE, by_vendor |-> TRUE, pan_searched |-> FALSE]
    ELSE IF Truthy(user.pan_vat_number) /\ ocr_text.kind # "empty"
    THEN [is_own_company |-> PanVatFound(user.pan_vat_number, ocr_text),
          by_vendor |-> FALSE, pan_searched |-> TRUE]
    ELSE [is_own_company |-> FALSE, by_vendor |-> FALSE, pan_searched |-> FALSE]

\* is_own_company after Method 1 and Method 2; pan_searched records whether
\* Method 2 ran at all.
OwnCompany(vendor, ocr_text, user) ==
    OwnCompanyAfter(VendorNameMatch(vendor, user.company_name), ocr_text, user)

\* "Set transaction type based on ownership"
SetTransactionType(instance, is_own_company) ==
    IF is_own_company
    THEN [instance EXCEPT !.transaction_type = "CREDIT",
                          !.account_type = "REVENUE",
                          !.is_debit = FALSE]
    ELSE [instance EXCEPT !.transaction_type = "DEBIT",
                          !.account_type = "EXPENSE",
                          !.is_debit = TRUE]

-----------------------------------------------------------------------------
(* Categorization: BillCategorizationService                               *)

\* Confidences and scores are integers in units of 1/Unit; Unit is chosen so
\* that every product and quotient the code forms on the modelled inputs
\* (x 0.8, x 0.9, x 1.1, / len(keywords) for lists of 1 to 4 keywords, on
\* confidences that are multiples of 0.01) is exact.
Unit == 3 * 1000

Pct(n) == (n * Unit) \div 100

\* category = None
NoCategory == "<None>"

\* confidence_score = NULL
NoScore == -1

\* amount = NULL; amounts are whole currency units
NoAmount == -1

Min(a, b) == IF a <= b THEN a ELSE b

Max(a, b) == IF a >= b THEN a ELSE b

\* Category.objects.get(name=category_name) finds a row
CategoryExists(categories, category_name) ==
    \E i \in 1..Len(categories) : categories[i].name = category_name

\* text_to_analyze = f"{vendor or ''} {ocr_text or ''}".strip() is ''
TextIsEmpty(vendor, ocr_text) ==
    /\ vendor = None \/ Strip(vendor) = <<>>
    /\ ocr_text.kind = "empty"

\* keyword in text_lower
KeywordInText(keyword, vendor, ocr_text) ==
    \/ vendor # None /\ Contains(Lower(vendor), keyword)
    \/ keyword \in ocr_text.kws

\* score of one category, before normalisation, times 10:
\* sum over the matching keywords of len(keyword) + 10
RECURSIVE KeywordWeightSum(_, _, _, _)
KeywordWeightSum(keywords, k, vendor, ocr_text) ==
    IF k = 0 THEN 0
    ELSE KeywordWeightSum(keywords, k - 1, vendor, ocr_text)
         + (IF KeywordInText(keywords[k], vendor, ocr_text)
            THEN Len(keywords[k]) + 10 ELSE 0)

\* score = sum(len(keyword) / 10.0 + 1.0) / len(keywords)
KeywordScore(category, vendor, ocr_text) ==
    IF category.keywords = <<>> THEN 0
    ELSE (Unit * KeywordWeightSum(category.keywords, Len(category.keywords),
                                  vendor, ocr_text))
         \div (10 * Len(category.keywords))

\* One turn of the loop in which an equal score replaces the best so far
BetterOrEqualOf(best, category, score) ==
    IF category.keywords # <<>> /\ score > 0 /\ score >= best.score
    THEN [category |-> category.name, score |-> score]
    ELSE best

\* One turn of the loop over Category.objects.exclude(keywords=''): the
\* best so far is replaced only by a strictly higher score.
BetterOf(best, category, score) ==
    IF category.keywords # <<>> /\ score > best.score
    THEN [category |-> category.name, score |-> score]
    ELSE best

\* best_category and best_score after the first k rows
RECURSIVE BestByKeywords(_, _, _, _)
BestByKeywords(categories, k, vendor, ocr_text) ==
    IF k = 0 THEN [category |-> NoCategory, score |-> 0]
    ELSE BetterOf(BestByKeywords(categories, k - 1, vendor, ocr_text),
                  categories[k],
                  KeywordScore(categories[k], vendor, ocr_text))

\* return best_category, min(best_score * 0.8, 0.95)
KeywordResult(best) ==
    [category |-> best.category,
     confidence |-> Min((best.score * 8) \div 10, Pct(95)),
     tier |-> "keyword"]

\* The keyword scorer (lines 82-103)
KeywordFallback(categories, vendor, ocr_text) ==
    KeywordResult(BestByKeywords(categories, Len(categories), vendor, ocr_text))

\* vendor_lower in self.vendor_mappings, and the category row exists
ExactVendorHits(vendor_mappings, categories, vendor_lower) ==
    {i \in 1..Len(vendor_mappings) :
        /\ vendor_mappings[i].vendor = vendor_lower
        /\ CategoryExists(categories, vendor_mappings[i].category)}

\* "Check if vendor contains any keywords from CSV": the mappings that are a
\* substring of the vendor or contain it, and whose category row exists.
PartialVendorHits(vendor_mappings, categories, vendor_lower) ==
    {i \in 1..Len(vendor_mappings) :
        /\ \/ Contains(vendor_lower, vendor_mappings[i].vendor)
           \/ Contains(vendor_mappings[i].vendor, vendor_lower)
        /\ CategoryExists(categories, vendor_mappings[i].category)}

ExactResult(mapping) ==
    [category |-> mapping.category, confidence |-> mapping.confidence,
     tier |-> "exact"]

\* A partial match at the configured confidence
PartialResultUnpenalized(mapping) ==
    [category |-> mapping.category, confidence |-> mapping.confidence,
     tier |-> "partial"]

\* confidence = mapping['confidence'] * 0.9
PartialResult(mapping) ==
    [category |-> mapping.category,
     confidence |-> (mapping.confidence * 9) \div 10,
     tier |-> "partial"]

\* The first hit in the dict's (the file's) order
FirstHit(hits) == CHOOSE j \in hits : \A k \in hits : j <= k

\* Lines 52-103 given the exact and the partial hits
ByVendorHits(vendor_mappings, exact, partial, categories, vendor, ocr_text) ==
    IF exact # {} THEN ExactResult(vendor_mappings[FirstHit(exact)])
    ELSE IF partial # {} THEN PartialResult(vendor_mappings[FirstHit(partial)])
    ELSE KeywordFallback(categories, vendor, ocr_text)

\* Lines 54-103 for vendor_lower = vendor.lower().strip()
ByVendorMap(vendor_mappings, categories, vendor, ocr_text, vendor_lower) ==
    ByVendorHits(vendor_mappings,
                 ExactVendorHits(vendor_mappings, categories, vendor_lower),
                 PartialVendorHits(vendor_mappings, categories, vendor_lower),
                 categories, vendor, ocr_text)

\* categorize_by_keywords(text, vendor)
categorize_by_keywords(vendor_mappings, categories, vendor, ocr_text) ==
    IF TextIsEmpty(vendor, ocr_text)
    THEN [category |-> NoCategory, confidence |-> 0, tier |-> "none"]
    ELSE IF Truthy(vendor)
    THEN ByVendorMap(vendor_mappings, categories, vendor, ocr_text,
                     Strip(Lower(vendor)))
    ELSE KeywordFallback(categories, vendor, ocr_text)

\* csv_category, csv_confidence with the method tag
FromCsv(csv, method) ==
    IF csv.category # NoCategory
    THEN [category |-> csv.category, confidence |-> csv.confidence,
          method |-> method]
    ELSE [category |-> NoCategory, confidence |-> 0, method |-> "none"]

\* The agreement rule without the boost
WithModelUnboosted(csv, ml) ==
    IF ml.raises THEN FromCsv(csv, "csv_fallback")
    ELSE IF ml.category # NoCategory /\ ml.confidence > Pct(50)
    THEN (IF csv.category = ml.category
          THEN [category |-> ml.category,
                confidence |-> Max(csv.confidence, ml.confidence),
                method |-> "csv_ml_agreement"]
          ELSE IF ml.confidence > csv.confidence
          THEN [category |-> ml.category, confidence |-> ml.confidence,
                method |-> "ml_model"]
          ELSE [category |-> csv.category, confidence |-> csv.confidence,
                method |-> "csv_mapping"])
    ELSE FromCsv(csv, "csv_fallback")

\* The classifier believed from confidence 0.3 on
WithModelTrustedFromThird(csv, ml) ==
    IF ml.raises THEN FromCsv(csv, "csv_fallback")
    ELSE IF ml.category # NoCategory /\ ml.confidence > Pct(30)
    THEN (IF csv.category = ml.category
          THEN [category |-> ml.category,
                confidence |->
                    Min((Max(csv.confidence, ml.confidence) * 11) \div 10,
                        Pct(99)),
                method |-> "csv_ml_agreement"]
          ELSE IF ml.confidence > csv.confidence
          THEN [category |-> ml.category, confidence |-> ml.confidence,
                method |-> "ml_model"]
          ELSE [category |-> csv.category, confidence |-> csv.confidence,
                method |-> "csv_mapping"])
    ELSE FromCsv(csv, "csv_fallback")

\* The disagreement rule deciding for the model on equal confidences too
WithModelWinningTies(csv, ml) ==
    IF ml.raises THEN FromCsv(csv, "csv_fallback")
    ELSE IF ml.category # NoCategory /\ ml.confidence > Pct(50)
    THEN (IF csv.category = ml.category
          THEN [category |-> ml.category,
                confidence |->
                    Min((Max(csv.confidence, ml.confidence) * 11) \div 10,
                        Pct(99)),
                method |-> "csv_ml_agreement"]
          ELSE IF ml.confidence >= csv.confidence
          THEN [category |-> ml.category, confidence |-> ml.confidence,
                method |-> "ml_model"]
          ELSE [category |-> csv.category, confidence |-> csv.confidence,
                method |-> "csv_mapping"])
    ELSE FromCsv(csv, "csv_fallback")

\* Lines 130-163: predict_category was called
WithModel(csv, ml) ==
    IF ml.raises THEN FromCsv(csv, "csv_fallback")
    ELSE IF ml.category # NoCategory /\ ml.confidence > Pct(50)
    THEN (IF csv.category = ml.category
          THEN [category |-> ml.category,
                confidence |->
                    Min((Max(csv.confidence, ml.confidence) * 11) \div 10,
                        Pct(99)),
                method |-> "csv_ml_agreement"]
          ELSE IF ml.confidence > csv.confidence
          THEN [category |-> ml.category, confidence |-> ml.confidence,
                method |-> "ml_model"]
          ELSE [category |-> csv.category, confidence |-> csv.confidence,
                method |-> "csv_mapping"])
    ELSE FromCsv(csv, "csv_fallback")

\* The cascade asking the classifier first whenever there is one
CascadeModelFirst(service, csv, ml) ==
    IF service.use_ml /\ service.ml_categorizer /\ ml.loaded
    THEN WithModel(csv, ml) @@ [ml_consulted |-> TRUE]
    ELSE IF csv.category # NoCategory /\ csv.confidence > Pct(80)
    THEN [category |-> csv.category, confidence |-> csv.confidence,
          method |-> "csv_mapping", ml_consulted |-> FALSE]
    ELSE FromCsv(csv, "keyword_fallback") @@ [ml_consulted |-> FALSE]

\* The cascade without its last branch (elif csv_category)
CascadeWithoutFallback(service, csv, ml) ==
    IF csv.category # NoCategory /\ csv.confidence > Pct(80)
    THEN [category |-> csv.category, confidence |-> csv.confidence,
          method |-> "csv_mapping", ml_consulted |-> FALSE]
    ELSE IF service.use_ml /\ service.ml_categorizer /\ ml.loaded
    THEN WithModel(csv, ml) @@ [ml_consulted |-> TRUE]
    ELSE [category |-> NoCategory, confidence |-> 0, method |-> "none",
          ml_consulted |-> FALSE]

\* Lines 120-169: the cascade, given csv = categorize_by_keywords(...).
\* service.use_ml and service.ml_categorizer say whether a categorizer object
\* exists; ml is the classifier as this call finds it: loaded
\* (ml_categorizer.model is set), raises (predict_category throws), and its
\* prediction. ml_consulted: predict_category was called.
Cascade(service, csv, ml) ==
    IF csv.category # NoCategory /\ csv.confidence > Pct(80)
    THEN [category |-> csv.category, confidence |-> csv.confidence,
          method |-> "csv_mapping", ml_consulted |-> FALSE]
    ELSE IF service.use_ml /\ service.ml_categorizer /\ ml.loaded
    THEN WithModel(csv, ml) @@ [ml_consulted |-> TRUE]
    ELSE FromCsv(csv, "keyword_fallback") @@ [ml_consulted |-> FALSE]

\* The amount word of prepare_features
AmountFeature(amount) ==
    IF amount = NoAmount \/ amount = 0 THEN "none"
    ELSE IF amount < 100 THEN "low_amount"
    ELSE IF amount < 1000 THEN "medium_amount"
    ELSE IF amount < 10000 THEN "high_amount"
    ELSE "very_high_amount"

\* prepare_features reading the bill's category as well
prepare_features_with_category(bill) ==
    [vendor |-> IF Truthy(bill.vendor) THEN Lower(bill.vendor) ELSE None,
     ocr_text |-> bill.ocr_text,
     invoice_number |-> bill.invoice_number,
     amount |-> bill.category]

\* MLBillCategorizer.prepare_features(bill): what of the bill the classifier
\* sees
prepare_features(bill) ==
    [vendor |-> IF Truthy(bill.vendor) THEN Lower(bill.vendor) ELSE None,
     ocr_text |-> bill.ocr_text,
     invoice_number |-> bill.invoice_number,
     amount |-> AmountFeature(bill.amount)]

\* The result of categorize_bill before it is written: category, confidence,
\* method, and whether predict_category was called.
categorize_bill_result(service, categories, bill, ml) ==
    Cascade(service,
            categorize_by_keywords(service.vendor_mappings, categories,
                                   bill.vendor, bill.ocr_text),
            ml)

\* A save that fills in the role for every bill with a category
BillSaveAnyRole(bill) ==
    IF bill.category # NoCategory
    THEN [bill EXCEPT !.account_type = "EXPENSE",
                      !.is_debit = TRUE,
                      !.transaction_type = "DEBIT"]
    ELSE bill

\* Bill.save(): the role is filled in only when a category is set and
\* transaction_type is empty (every category type maps to EXPENSE).
BillSave(bill) ==
    IF bill.category # NoCategory /\ bill.transaction_type = ""
    THEN [bill EXCEPT !.account_type = "EXPENSE",
                      !.is_debit = TRUE,
                      !.transaction_type = "DEBIT"]
    ELSE bill

\* "Update bill if we have a category with sufficient confidence": the bill
\* as categorize_bill leaves it.
ApplyCategory(bill, category, confidence) ==
    IF category # NoCategory /\ confidence > Pct(30)
    THEN [bill EXCEPT !.category = category,
                      !.is_auto_categorized = TRUE,
                      !.confidence_score = confidence]
    ELSE bill

\* Lines 171-179: the row is changed and saved only for a category whose
\* confidence is above the threshold
WriteResult(bill, r) ==
    IF r.category # NoCategory /\ r.confidence > Pct(30)
    THEN BillSave(ApplyCategory(bill, r.category, r.confidence))
    ELSE bill

\* categorize_bill(bill): the row as it is afterwards
categorize_bill(service, categories, bill, ml) ==
    WriteResult(bill, categorize_bill_result(service, categories, bill, ml))

-----------------------------------------------------------------------------
(* The data the model runs on *)

\* Uploads per behaviour (each upload is one call of BillSerializer.create).
MaxUploads == 2

Uploads == 1..MaxUploads

\* CustomUser rows: u1 has registered a company name, u2 a PAN.
Users ==
    [u1 |-> [company_name |-> <<"Z","e","n","i","t">>, pan_vat_number |-> None],
     u2 |-> [company_name |-> None,
             pan_vat_number |-> <<"1","2","3","4","5","6","7","8","9">>]]

UserIds == DOMAIN Users

PanText == [kind |-> "text",
            ids |-> {[id |-> <<"1","2","3","4","5","6","7","8","9">>, labelled |-> TRUE]},
            kws |-> {}]

PlainText == [kind |-> "text", ids |-> {}, kws |-> {}]

BusText == [kind |-> "text", ids |-> {}, kws |-> {<<"b","u","s">>}]

\* What process_bill_image returns for the uploaded images (bill_data), or
\* that it raises: invoice numbers are upper case and vendors stripped, as
\* extract_invoice_number and extract_vendor return them.
Docs ==
    { [fails |-> FALSE, amount |-> 500, vendor |-> <<"Z","e","n","i","t">>, invoice_number |-> <<"A","1">>,
       ocr_text |-> PanText],
      [fails |-> FALSE, amount |-> 500, vendor |-> <<"Z","E","N","I","T">>, invoice_number |-> <<"A","1">>,
       ocr_text |-> PlainText],
      [fails |-> FALSE, amount |-> 500, vendor |-> <<"M","o","x","i","e">>, invoice_number |-> <<"A","1">>,
       ocr_text |-> PanText],
      [fails |-> FALSE, amount |-> 500, vendor |-> <<"M","y"," ","Z","e","n","i","t">>, invoice_number |-> <<"A","2">>,
       ocr_text |-> PanText],
      [fails |-> FALSE, amount |-> 500, vendor |-> None, invoice_number |-> None,
       ocr_text |-> BusText],
      [fails |-> TRUE, amount |-> NoAmount, vendor |-> None, invoice_number |-> None,
       ocr_text |-> EmptyText] }

\* Category rows in primary-key order (name, get_keywords_list()).
Categories ==
    << [name |-> "Food", keywords |-> <<<<"c","a","f","e">>, <<"f","o","o","d">>>>],
       [name |-> "Travel", keywords |-> <<<<"t","a","x","i">>, <<"b","u","s">>, <<"c","a","f","e">>, <<"a","i","r">>>>],
       [name |-> "Other", keywords |-> <<>>] >>

\* vendor_categories.csv as load_vendor_mappings reads it, in file order.
VendorMappings ==
    << [vendor |-> <<"m","o","x","i","e">>, category |-> "Food", confidence |-> Pct(95)] >>

\* BillCategorizationService(): use_ml defaults to True; ml_categorizer is
\* the MLBillCategorizer object unless its construction raised.
Service == [use_ml |-> TRUE, ml_categorizer |-> TRUE,
            vendor_mappings |-> VendorMappings]

NoModel == [loaded |-> FALSE, raises |-> FALSE, category |-> NoCategory,
            confidence |-> 0]

\* A trained classifier that predicts Travel with probability 0.9
TravelModel == [loaded |-> TRUE, raises |-> FALSE, category |-> "Travel",
                confidence |-> Pct(90)]

\* job when no single-call study is running
NoJob == [phase |-> "off"]

-----------------------------------------------------------------------------
(* The bills table, the stored image files, and BillSerializer.create      *)
(*                                                                         *)
(* bills   the Bill rows, by primary key; uploads are numbered in the      *)
(*         order they start, and upload p inserts the row with key p       *)
(* files   the keys of the rows whose image file is in storage             *)
(* proc    per upload: where create stands (pc), its user and document,    *)
(*         its in-memory instance, and what it found                       *)
(* The database runs in autocommit mode (no ATOMIC_REQUESTS, no            *)
(* transaction.atomic in create): every query is a step of its own.        *)

\* Bill.objects.create(user=user, image=uploaded_image): the field defaults
NewBill(user) ==
    [user |-> user, invoice_number |-> None, vendor |-> None,
     amount |-> NoAmount, ocr_text |-> EmptyText, category |-> NoCategory,
     is_auto_categorized |-> FALSE, confidence_score |-> NoScore,
     transaction_type |-> "DEBIT", account_type |-> "EXPENSE",
     is_debit |-> TRUE]

Idle == [pc |-> "idle"]

\* UPDATE of row id (Model.save() of an existing instance)
UpdateRow(table, id, row) == [i \in DOMAIN table |-> IF i = id THEN row ELSE table[i]]

\* DELETE of row id
DeleteRow(table, id) == [i \in DOMAIN table \ {id} |-> table[i]]

\* INSERT of row id
InsertRow(table, id, row) == [i \in DOMAIN table \cup {id} |-> IF i = id THEN row ELSE table[i]]

\* queryset.first() under Meta.ordering = ['-created_at']: the newest row
First(ids) == CHOOSE i \in ids : \A j \in ids : j <= i

\* Check 1 without the filter on the user
SameInvoiceSameVendorAnyUser(table, id, instance) ==
    {i \in DOMAIN table \ {id} :
        /\ IExact(table[i].invoice_number, Strip(instance.invoice_number))
        /\ IExact(table[i].vendor, Lower(Strip(instance.vendor)))}

\* Check 1: Bill.objects.filter(user=user, invoice_number__iexact=...,
\*          vendor__iexact=vendor_normalized).exclude(id=instance.id)
SameInvoiceSameVendor(table, id, instance) ==
    {i \in DOMAIN table \ {id} :
        /\ table[i].user = instance.user
        /\ IExact(table[i].invoice_number, Strip(instance.invoice_number))
        /\ IExact(table[i].vendor, Lower(Strip(instance.vendor)))}

\* Check 2 without the filter on the invoice number
SamePanAnyInvoice(table, id, instance, extracted_pan_vat) ==
    {i \in DOMAIN table \ {id} :
        /\ table[i].user = instance.user
        /\ OcrIContains(table[i].ocr_text, extracted_pan_vat)}

\* Check 2 with a filter on the vendor as well
SameInvoiceSamePanSameVendor(table, id, instance, extracted_pan_vat) ==
    {i \in DOMAIN table \ {id} :
        /\ table[i].user = instance.user
        /\ IExact(table[i].invoice_number, Strip(instance.invoice_number))
        /\ IExact(table[i].vendor, Lower(Strip(instance.vendor)))
        /\ OcrIContains(table[i].ocr_text, extracted_pan_vat)}

\* Check 2: Bill.objects.filter(user=user, invoice_number__iexact=...,
\*          ocr_text__icontains=extracted_pan_vat).exclude(id=instance.id)
SameInvoiceSamePan(table, id, instance, extracted_pan_vat) ==
    {i \in DOMAIN table \ {id} :
        /\ table[i].user = instance.user
        /\ IExact(table[i].invoice_number, Strip(instance.invoice_number))
        /\ OcrIContains(table[i].ocr_text, extracted_pan_vat)}

\* Meta.constraints unique_invoice_per_vendor_per_user: would saving instance
\* as row id break UNIQUE (user, invoice_number, vendor) WHERE both not NULL?
UniqueViolation(table, id, instance) ==
    /\ instance.invoice_number # None
    /\ instance.vendor # None
    /\ \E i \in DOMAIN table \ {id} :
           /\ table[i].user = instance.user
           /\ table[i].invoice_number = instance.invoice_number
           /\ table[i].vendor = instance.vendor

\* Bill.objects.get(user=user, invoice_number__iexact=..., vendor__iexact=...)
\* in the handler of the constraint error
DuplicateOfFailedSave(table, instance) ==
    {i \in DOMAIN table :
        /\ table[i].user = instance.user
        /\ IExact(table[i].invoice_number, instance.invoice_number)
        /\ IExact(table[i].vendor, instance.vendor)}

\* create, lines 75-89: insert the row and store the image
Start(p, u, d) ==
    /\ proc[p].pc = "idle"
    /\ IF p = 1 THEN TRUE ELSE proc[p - 1].pc # "idle"
    /\ bills' = InsertRow(bills, p, NewBill(u))
    /\ files' = files \cup {p}
    /\ proc' = [proc EXCEPT ![p] =
                   [pc |-> "created", user |-> u, doc |-> d,
                    instance |-> NewBill(u), extracted_pan_vat |-> None,
                    duplicate |-> 0, reason |-> "", own |-> FALSE,
                    pan_searched |-> FALSE]]
    /\ UNCHANGED job

\* Lines 147-167 and 205-216: where create goes after the first check
AfterCheck1(p, instance, extracted_pan_vat, potential_duplicates) ==
    [proc EXCEPT
        ![p].instance = instance,
        ![p].extracted_pan_vat = extracted_pan_vat,
        ![p].duplicate =
            IF potential_duplicates # {} THEN First(potential_duplicates) ELSE 0,
        ![p].reason = IF potential_duplicates # {} THEN "vendor" ELSE "",
        ![p].pc =
            IF potential_duplicates # {} THEN "duplicate"
            ELSE IF Truthy(instance.invoice_number) /\ Truthy(extracted_pan_vat)
            THEN "check2" ELSE "save"]

\* Lines 98-104: the extracted fields on the instance
Extracted(instance, doc) ==
    [instance EXCEPT !.ocr_text = doc.ocr_text,
                     !.invoice_number = doc.invoice_number,
                     !.amount = doc.amount,
                     !.vendor = doc.vendor]

\* Check 1 runs only with an invoice number and a vendor
Check1(table, id, instance) ==
    IF Truthy(instance.invoice_number) /\ Truthy(instance.vendor)
    THEN SameInvoiceSameVendor(table, id, instance)
    ELSE {}

\* Lines 360-364: the generic handler's instance
OcrFailed(instance) == BillSave([instance EXCEPT !.ocr_text = ErrorText])

\* create, lines 92-167 and 357-364: process_bill_image, the extracted
\* fields, the tax ID, and the first duplicate check; or, when OCR raises,
\* the 'OCR Error' save that ends the upload.
RunOcr(p) ==
    /\ proc[p].pc = "created"
    /\ IF proc[p].doc.fails
       THEN /\ bills' = UpdateRow(bills, p, OcrFailed(proc[p].instance))
            /\ proc' = [proc EXCEPT ![p].pc = "done",
                                    ![p].instance = OcrFailed(proc[p].instance)]
       ELSE /\ bills' = bills
            /\ proc' = AfterCheck1(p, Extracted(proc[p].instance, proc[p].doc),
                                   ExtractPanVat(proc[p].doc.ocr_text),
                                   Check1(bills, p,
                                          Extracted(proc[p].instance, proc[p].doc)))
    /\ UNCHANGED <<files, job>>

\* create, lines 169-182: the second duplicate check
Check2(p) ==
    /\ proc[p].pc = "check2"
    /\ LET me == proc[p]
           potential_duplicates ==
               SameInvoiceSamePan(bills, p, me.instance, me.extracted_pan_vat)
       IN  proc' = [proc EXCEPT
               ![p].duplicate =
                   IF potential_duplicates # {}
                   THEN First(potential_duplicates) ELSE 0,
               ![p].reason = IF potential_duplicates # {} THEN "pan" ELSE "",
               ![p].pc = IF potential_duplicates # {} THEN "duplicate" ELSE "save"]
    /\ UNCHANGED <<bills, files, job>>

\* create, lines 187-203: delete the new row and its image, raise the
\* ValidationError that names the duplicate
Reject(p) ==
    /\ proc[p].pc = "duplicate"
    /\ bills' = DeleteRow(bills, p)
    /\ files' = files \ {p}
    /\ proc' = [proc EXCEPT ![p].pc = "rejected"]
    /\ UNCHANGED job

\* create, lines 235-325: the category by vendor map and keywords, and the
\* transaction role
Prepared(instance, csv, own) ==
    SetTransactionType(ApplyCategory(instance, csv.category, csv.confidence),
                       own.is_own_company)

\* Lines 327-367: instance.save(); a constraint error deletes the image and
\* raises the duplicate error, and when the lookup of the duplicate itself
\* raises (several rows match) the generic handler's save fails again and
\* create ends with that error. found: the rows Bill.objects.get matches.
SaveOutcome(p, instance, own, violation, found) ==
    IF violation
    THEN /\ bills' = bills
         /\ files' = files \ {p}
         /\ proc' = [proc EXCEPT
                ![p].instance = instance,
                ![p].own = own.is_own_company,
                ![p].pan_searched = own.pan_searched,
                ![p].reason = "constraint",
                ![p].duplicate =
                    IF Cardinality(found) = 1 THEN First(found) ELSE 0,
                ![p].pc = IF Cardinality(found) > 1 THEN "error" ELSE "rejected"]
    ELSE /\ bills' = UpdateRow(bills, p, instance)
         /\ files' = files
         /\ proc' = [proc EXCEPT
                ![p].instance = instance,
                ![p].own = own.is_own_company,
                ![p].pan_searched = own.pan_searched,
                ![p].pc = "done"]

SaveInstance(p, instance, own) ==
    SaveOutcome(p, instance, own, UniqueViolation(bills, p, instance),
                DuplicateOfFailedSave(bills, instance))

SaveWith(p, me, own) ==
    SaveInstance(p,
        BillSave(Prepared(me.instance,
                          categorize_by_keywords(VendorMappings, Categories,
                              me.instance.vendor, me.instance.ocr_text),
                          own)),
        own)

\* create, lines 235-367: categorize, classify, save
Save(p) ==
    /\ proc[p].pc = "save"
    /\ SaveWith(p, proc[p],
                OwnCompany(proc[p].instance.vendor, proc[p].instance.ocr_text,
                           Users[proc[p].user]))
    /\ UNCHANGED job

-----------------------------------------------------------------------------
(* The operations that rewrite stored bills *)

\* fix_income_bills that leaves is_debit alone
FixIncomeRowKeepingIsDebit(bill, company_normalized, vendor_normalized) ==
    IF /\ \/ vendor_normalized = company_normalized
          \/ Contains(vendor_normalized, company_normalized)
       /\ bill.transaction_type # "CREDIT"
    THEN [bill EXCEPT !.transaction_type = "CREDIT",
                      !.account_type = "REVENUE"]
    ELSE bill

\* fix_income_bills, lines 26-36, for one bill of a user
FixIncomeRow(bill, company_normalized, vendor_normalized) ==
    IF /\ \/ vendor_normalized = company_normalized
          \/ Contains(vendor_normalized, company_normalized)
       /\ bill.transaction_type # "CREDIT"
    THEN [bill EXCEPT !.transaction_type = "CREDIT",
                      !.account_type = "REVENUE",
                      !.is_debit = FALSE]
    ELSE bill

\* fix_income_bills, lines 15-36: users without a company name and bills
\* without a vendor are skipped
FixIncomeBill(bill, user) ==
    IF Truthy(user.company_name) /\ Truthy(bill.vendor)
    THEN FixIncomeRow(bill, Lower(Strip(user.company_name)),
                      Lower(Strip(bill.vendor)))
    ELSE bill

\* manage.py fix_income_bills
FixIncomeBills ==
    /\ bills' = [i \in DOMAIN bills |-> FixIncomeBill(bills[i], Users[bills[i].user])]
    /\ UNCHANGED <<files, proc, job>>

\* BillViewSet.recategorize / bulk_categorize_bills for one stored bill:
\* categorize_bill(bill) with the classifier as the service finds it
CategorizeStoredBill(i, ml) ==
    /\ bills' = UpdateRow(bills, i, categorize_bill(Service, Categories, bills[i], ml))
    /\ UNCHANGED <<files, proc, job>>

\* recategorize_bills, lines 57-63: the bills the command processes
Selected(bill, force, min_confidence) ==
    \/ force
    \/ bill.category = NoCategory
    \/ bill.confidence_score # NoScore /\ bill.confidence_score < min_confidence
    \/ ~bill.is_auto_categorized

\* bill.confidence_score or 0.0
OldConfidence(bill) ==
    IF bill.confidence_score = NoScore THEN 0 ELSE bill.confidence_score

\* recategorize_bills, lines 107-116: is_change
IsChange(bill, new, old_confidence) ==
    \/ bill.category = NoCategory
    \/ bill.category # new.category
    \/ new.confidence > old_confidence + Pct(5)

\* recategorize_bills, lines 93-140 for one bill; new is what
\* categorize_by_keywords returned
RecategorizeRow(bill, new, dry_run) ==
    IF new.category # NoCategory /\ IsChange(bill, new, OldConfidence(bill))
       /\ ~dry_run
    THEN [bill EXCEPT !.category = new.category,
                      !.confidence_score = new.confidence,
                      !.is_auto_categorized = TRUE]
    ELSE bill

RecategorizeBill(service, categories, bill, dry_run) ==
    RecategorizeRow(bill,
                    categorize_by_keywords(service.vendor_mappings, categories,
                                           bill.vendor, bill.ocr_text),
                    dry_run)

\* manage.py recategorize_bills [--force] [--dry-run], --min-confidence 0.0
RecategorizeBills(force, dry_run) ==
    /\ bills' = [i \in DOMAIN bills |->
                    IF Selected(bills[i], force, 0)
                    THEN RecategorizeBill(Service, Categories, bills[i], dry_run)
                    ELSE bills[i]]
    /\ UNCHANGED <<files, proc, job>>

Init ==
    /\ bills = <<>>
    /\ files = {}
    /\ proc = [p \in Uploads |-> Idle]
    /\ job = NoJob

Upload(p) ==
    \/ \E u \in UserIds, d \in Docs : Start(p, u, d)
    \/ RunOcr(p)
    \/ Check2(p)
    \/ Reject(p)
    \/ Save(p)

Maintain ==
    \/ FixIncomeBills
    \/ \E i \in DOMAIN bills, ml \in {NoModel, TravelModel} : CategorizeStoredBill(i, ml)
    \/ \E force \in BOOLEAN, dry_run \in BOOLEAN : RecategorizeBills(force, dry_run)

Next == \E p \in Uploads : Upload(p)

Spec == Init /\ [][Next]_vars

\* Uploads one at a time, with the maintenance operations run at any moment
Finished(p) == proc[p].pc \in {"idle", "done", "rejected", "error"}

UploadAlone(p) ==
    \/ (\A q \in Uploads : Finished(q)) /\ \E u \in UserIds, d \in Docs : Start(p, u, d)
    \/ RunOcr(p)
    \/ Check2(p)
    \/ Reject(p)
    \/ Save(p)

NextMaint == (\E p \in Uploads : UploadAlone(p)) \/ Maintain

SpecMaint == Init /\ [][NextMaint]_vars

\* create, lines 235-325 and 357-364: the categorization raises, or
\* (categorized) the classification after it, with none of the fields saved
\* yet; the generic handler writes the 'OCR Error' text and saves the
\* instance, and a constraint error of that save leaves create.
RaiseAfterChecks(p, categorized) ==
    /\ proc[p].pc = "save"
    /\ LET me == proc[p]
           csv == categorize_by_keywords(VendorMappings, Categories,
                                         me.instance.vendor, me.instance.ocr_text)
           instance ==
               OcrFailed(IF categorized
                         THEN ApplyCategory(me.instance, csv.category,
                                            csv.confidence)
                         ELSE me.instance)
       IN  IF UniqueViolation(bills, p, instance)
           THEN /\ bills' = bills
                /\ proc' = [proc EXCEPT ![p].instance = instance,
                                        ![p].reason = "exception",
                                        ![p].pc = "error"]
           ELSE /\ bills' = UpdateRow(bills, p, instance)
                /\ proc' = [proc EXCEPT ![p].instance = instance,
                                        ![p].reason = "exception",
                                        ![p].pc = "done"]
    /\ UNCHANGED <<files, job>>

\* Concurrent uploads in which the code after the duplicate checks may raise
SpecRaise ==
    Init /\ [][\E p \in Uploads :
                  Upload(p) \/ \E categorized \in BOOLEAN :
                                  RaiseAfterChecks(p, categorized)]_vars

-----------------------------------------------------------------------------
(* The classification of lines 249-325 as a function of the vendor, the OCR *)
(* text and the user                                                        *)

RoleVendors ==
    { None, <<"Z","e","n","i","t">>, <<"Z","E","N","I","T"," ">>, <<"Z","e","n","i","t"," ","L","t","d">>, <<"Z","e","n","i","t","h"," ","C","o">>, <<"B","i","l","l"," ","T","o"," ","Z","e","n","i","t">>, <<"Z","e","n">>, <<"M","o","x","i","e">> }

RoleUsers ==
    [company_name : { None, <<"Z","e","n","i","t">>, <<"Z","e","n","i","t"," ","P","v","t","."," ","L","t","d",".">>, <<"Z","e","n">> },
     pan_vat_number : { None, <<"1","2","3","4","5","6","7","8","9">>, <<"1","2","-","3","4","5">> }]

RoleTexts ==
    { EmptyText, PlainText, PanText, ErrorText,
      [kind |-> "text", ids |-> {[id |-> <<"1","2","3","4","5","6","7","8","9">>, labelled |-> FALSE]}, kws |-> {}],
      [kind |-> "text", ids |-> {[id |-> <<"1","2","3","4","5">>, labelled |-> TRUE]}, kws |-> {}],
      [kind |-> "text", ids |-> {[id |-> <<"1","2","3","4","5">>, labelled |-> FALSE]}, kws |-> {}] }

InitRole ==
    /\ bills = <<>>
    /\ files = {}
    /\ proc = [p \in Uploads |-> Idle]
    /\ job \in [phase : {"in"}, user : RoleUsers, vendor : RoleVendors,
                ocr_text : RoleTexts, instance : {NewBill("u1")},
                pan_searched : {FALSE}]

Classified(j, own) ==
    [j EXCEPT !.phase = "out",
              !.instance = SetTransactionType(j.instance, own.is_own_company),
              !.pan_searched = own.pan_searched]

\* create, lines 249-325, on an instance with the given vendor and OCR text
Classify ==
    /\ job.phase = "in"
    /\ job' = Classified(job, OwnCompany(job.vendor, job.ocr_text, job.user))
    /\ UNCHANGED <<bills, files, proc>>

SpecRole == InitRole /\ [][Classify]_vars

-----------------------------------------------------------------------------
(* categorize_bill as a function of the service, the bill and the classifier *)

Mapping(vendor, category, pct) ==
    [vendor |-> vendor, category |-> category, confidence |-> Pct(pct)]

\* vendor_mappings as load_vendor_mappings leaves it, keys in file order
CatMappings ==
    { <<>>,
      << Mapping(<<"m","o","x","i","e">>, "Food", 95) >>,
      << Mapping(<<"m","o","x","i","e">>, "Food", 80) >>,
      << Mapping(<<"m","o","x">>, "Travel", 90) >>,
      << Mapping(<<"m","o","x","i","e">>, "Lost", 95), Mapping(<<"m","o","x">>, "Food", 60) >>,
      << Mapping(<<"m","o","x","i","e">>, "Food", 150) >> }

\* BillCategorizationService(use_ml): the categorizer object exists exactly
\* when use_ml is set
CatServices ==
    { [use_ml |-> b, ml_categorizer |-> b, vendor_mappings |-> m] :
          b \in BOOLEAN, m \in CatMappings }

CatVendors == { None, <<"M","o","x","i","e">>, <<"Z","e","n","i","t">> }

CatTexts ==
    { EmptyText, PlainText, BusText,
      [kind |-> "text", ids |-> {}, kws |-> {<<"c","a","f","e">>}],
      [kind |-> "text", ids |-> {}, kws |-> {<<"c","a","f","e">>, <<"f","o","o","d">>}],
      [kind |-> "text", ids |-> {}, kws |-> {<<"c","a","f","e">>, <<"t","a","x","i">>}] }

CatBills ==
    { [NewBill("u1") EXCEPT !.vendor = v, !.ocr_text = t, !.amount = a] :
          v \in CatVendors, t \in CatTexts, a \in {NoAmount, 500} }

\* Probabilities predict_category can report, in percent
CatConfidences == {40, 50, 51, 60, 80, 85, 95, 100}

\* The classifier as a call finds it: not loaded, raising, predicting a
\* category that has no row (None, 0.0), or predicting a category
CatModels ==
    { NoModel,
      [loaded |-> TRUE, raises |-> TRUE, category |-> NoCategory, confidence |-> 0],
      [loaded |-> TRUE, raises |-> FALSE, category |-> NoCategory, confidence |-> 0] }
    \cup { [loaded |-> TRUE, raises |-> FALSE, category |-> c, confidence |-> Pct(n)] :
               c \in {"Food", "Travel"}, n \in CatConfidences }

NoResult == [category |-> NoCategory, confidence |-> 0, method |-> "none",
             ml_consulted |-> FALSE]

InitCat ==
    /\ bills = <<>>
    /\ files = {}
    /\ proc = [p \in Uploads |-> Idle]
    /\ job \in [phase : {"in"}, service : CatServices, bill : CatBills,
                ml : CatModels, csv : {NoResult}, result : {NoResult},
                saved : {NewBill("u1")}, again : {NoResult},
                saved_again : {NewBill("u1")}]

\* categorize_bill on the job's bill: csv is what categorize_by_keywords
\* returned, result what the cascade chose, saved the bill afterwards
Categorized(j, csv, r) ==
    [j EXCEPT !.phase = "out", !.csv = csv, !.result = r,
              !.saved = WriteResult(j.bill, r)]

CategorizedFrom(j, csv) == Categorized(j, csv, Cascade(j.service, csv, j.ml))

\* BillCategorizationService.categorize_bill(bill)
CategorizeBill ==
    /\ job.phase = "in"
    /\ job' = CategorizedFrom(job,
                  categorize_by_keywords(job.service.vendor_mappings, Categories,
                                         job.bill.vendor, job.bill.ocr_text))
    /\ UNCHANGED <<bills, files, proc>>

\* What the same classifier predicts for the bill as the first call left
\* it: the same as before for the same features
PredictionsAgain(j) ==
    IF prepare_features(j.saved) = prepare_features(j.bill) THEN {j.ml}
    ELSE {m \in CatModels : m.loaded = j.ml.loaded}

CategorizedAgain(j, r) ==
    [j EXCEPT !.phase = "again", !.again = r,
              !.saved_again = WriteResult(j.saved, r)]

\* A second categorize_bill(bill) on the bill the first call returned, with
\* nothing retrained or reloaded in between
CategorizeBillAgain ==
    /\ job.phase = "out"
    /\ \E ml \in PredictionsAgain(job) :
           job' = CategorizedAgain(job,
                      categorize_bill_result(job.service, Categories, job.saved, ml))
    /\ UNCHANGED <<bills, files, proc>>

NextCat == CategorizeBill \/ CategorizeBillAgain

SpecCat == InitCat /\ [][NextCat]_vars

-----------------------------------------------------------------------------
(* The classifier artifact: train_model and save_model of one categorizer,  *)
(* and the construction, load_model and use of another                      *)
(*                                                                          *)
(* job.disk     the two artifact files, model and vectorizer: "missing",    *)
(*              "corrupt" (unreadable, truncated or half written), or the   *)
(*              training run whose pickle they hold, "v1" (an earlier run)  *)
(*              or "v2" (the run of this trainer)                           *)
(* job.trainer  where train_model stands, what it returned, and whether a   *)
(*              write of save_model failed                                  *)
(* job.loader   the categorizer of a BillCategorizationService: whether it  *)
(*              exists, its model (with the label encoders) and vectorizer  *)
(*              ("none" or a run), what the last load_model returned, and   *)
(*              model and vectorizer as they were before that load          *)

min_labeled == 10

\* The bills categorized with the loaded classifier
ArtBills ==
    { [NewBill("u1") EXCEPT !.vendor = <<"M","o","x","i","e">>, !.ocr_text = PlainText],
      [NewBill("u1") EXCEPT !.ocr_text = BusText] }

\* What predict and predict_proba give, or that they raise
ArtPredictions ==
    { [loaded |-> TRUE, raises |-> TRUE, category |-> NoCategory, confidence |-> 0],
      [loaded |-> TRUE, raises |-> FALSE, category |-> "Food", confidence |-> Pct(90)],
      [loaded |-> TRUE, raises |-> FALSE, category |-> "Travel", confidence |-> Pct(40)] }

InitArt ==
    /\ bills = <<>>
    /\ files = {}
    /\ proc = [p \in Uploads |-> Idle]
    /\ job \in { [phase |-> "art", disk |-> disk, old |-> disk,
                   labeled |-> labeled,
                   trainer |-> [pc |-> "idle", file |-> "model", ret |-> "none",
                                failed |-> FALSE],
                   loader |-> [pc |-> "new", exists |-> FALSE, model |-> "none",
                               vectorizer |-> "none", ret |-> "none",
                               before_model |-> "none",
                               before_vectorizer |-> "none", reloaded |-> FALSE],
                   bill |-> bill, ml |-> NoModel, csv |-> NoResult,
                   result |-> NoResult, saved |-> NewBill("u1")] :
                     disk \in [model : {"missing", "corrupt", "v1"},
                               vectorizer : {"missing", "corrupt", "v1"}],
                     labeled \in {min_labeled - 1, min_labeled},
                     bill \in ArtBills }

\* train_model, lines 86-132: too few labeled bills return False; splitting
\* or fitting may raise; otherwise the new model and vectorizer are fitted
\* and save_model is called
TrainModel ==
    /\ job.phase = "art"
    /\ job.trainer.pc = "idle"
    /\ \/ /\ job.labeled < min_labeled
          /\ job' = [job EXCEPT !.trainer.pc = "returned", !.trainer.ret = "False"]
       \/ /\ job.labeled >= min_labeled
          /\ \E fitted \in BOOLEAN :
                 job' = [job EXCEPT !.trainer.pc = IF fitted THEN "open" ELSE "raised"]
    /\ UNCHANGED <<bills, files, proc>>

\* save_model, open(path, 'wb') of the file it is at: the file is truncated;
\* when open raises, save_model returns False, which train_model does not
\* look at before it returns True
OpenArtifact ==
    /\ job.phase = "art"
    /\ job.trainer.pc = "open"
    /\ \E ok \in BOOLEAN :
           job' = IF ok
                  THEN [job EXCEPT !.disk[job.trainer.file] = "corrupt",
                                   !.trainer.pc = "dump"]
                  ELSE [job EXCEPT !.trainer.pc = "returned",
                                   !.trainer.ret = "True",
                                   !.trainer.failed = TRUE]
    /\ UNCHANGED <<bills, files, proc>>

\* save_model, pickle.dump into the open file and its close: the model file
\* first, then the vectorizer file; train_model returns True either way
DumpArtifact ==
    /\ job.phase = "art"
    /\ job.trainer.pc = "dump"
    /\ \E ok \in BOOLEAN :
           job' = IF ~ok
                  THEN [job EXCEPT !.trainer.pc = "returned",
                                   !.trainer.ret = "True",
                                   !.trainer.failed = TRUE]
                  ELSE IF job.trainer.file = "model"
                  THEN [job EXCEPT !.disk.model = "v2",
                                   !.trainer.file = "vectorizer",
                                   !.trainer.pc = "open"]
                  ELSE [job EXCEPT !.disk.vectorizer = "v2",
                                   !.trainer.pc = "returned",
                                   !.trainer.ret = "True"]
    /\ UNCHANGED <<bills, files, proc>>

\* BillCategorizationService.__init__: when the import or the constructor of
\* MLBillCategorizer raises there is no categorizer; otherwise the
\* categorizer starts empty and calls load_model
ConstructService ==
    /\ job.phase = "art"
    /\ job.loader.pc = "new"
    /\ \E ok \in BOOLEAN :
           job' = [job EXCEPT !.loader.exists = ok,
                              !.loader.pc = IF ok THEN "read_model" ELSE "ready"]
    /\ UNCHANGED <<bills, files, proc>>

\* load_model, lines 188-193: both files must exist; the model file is
\* unpickled and model and label encoders are assigned
ReadModelFile ==
    /\ job.phase = "art"
    /\ job.loader.pc = "read_model"
    /\ job' = IF job.disk.model \in {"missing", "corrupt"}
                 \/ job.disk.vectorizer = "missing"
              THEN [job EXCEPT !.loader.pc = "ready", !.loader.ret = "False"]
              ELSE [job EXCEPT !.loader.pc = "read_vectorizer",
                               !.loader.model = job.disk.model]
    /\ UNCHANGED <<bills, files, proc>>

\* load_model, lines 195-205: the vectorizer file is unpickled; any
\* exception makes load_model return False
ReadVectorizerFile ==
    /\ job.phase = "art"
    /\ job.loader.pc = "read_vectorizer"
    /\ job' = IF job.disk.vectorizer \in {"missing", "corrupt"}
              THEN [job EXCEPT !.loader.pc = "ready", !.loader.ret = "False"]
              ELSE [job EXCEPT !.loader.pc = "ready", !.loader.ret = "True",
                               !.loader.vectorizer = job.disk.vectorizer]
    /\ UNCHANGED <<bills, files, proc>>

\* categorize_bill gets to predict_category: the first stage is not sure and
\* the categorizer has a model
AsksClassifier(loader, csv) ==
    /\ ~(csv.category # NoCategory /\ csv.confidence > Pct(80))
    /\ loader.exists
    /\ loader.model # "none"

\* predict_category, lines 141-143: without a vectorizer load_model is
\* called again
ReloadModel ==
    /\ job.phase = "art"
    /\ job.loader.pc = "ready"
    /\ ~job.loader.reloaded
    /\ job.loader.vectorizer = "none"
    /\ AsksClassifier(job.loader,
                      categorize_by_keywords(VendorMappings, Categories,
                                             job.bill.vendor, job.bill.ocr_text))
    /\ job' = [job EXCEPT !.loader.pc = "read_model",
                          !.loader.reloaded = TRUE,
                          !.loader.before_model = job.loader.model,
                          !.loader.before_vectorizer = job.loader.vectorizer]
    /\ UNCHANGED <<bills, files, proc>>

ReloadNeeded ==
    /\ job.loader.vectorizer = "none"
    /\ AsksClassifier(job.loader,
                      categorize_by_keywords(VendorMappings, Categories,
                                             job.bill.vendor, job.bill.ocr_text))

\* predict_category taking whatever it is given for a prediction
predict_category_unchecked(loader, drawn) ==
    [drawn EXCEPT !.loaded = loader.model # "none"]

\* predict_category as categorize_bill sees it: (None, 0.0) when the
\* vectorizer is still missing after the reload, else the prediction
predict_category(loader, drawn) ==
    IF loader.vectorizer = "none"
    THEN [loaded |-> loader.model # "none", raises |-> FALSE,
          category |-> NoCategory, confidence |-> 0]
    ELSE [drawn EXCEPT !.loaded = loader.model # "none"]

CategorizedWith(j, csv, ml, r) ==
    [j EXCEPT !.loader.pc = "categorized", !.csv = csv, !.ml = ml,
              !.result = r, !.saved = WriteResult(j.bill, r)]

CategorizeFrom(j, csv, ml) ==
    CategorizedWith(j, csv, ml,
        Cascade([use_ml |-> TRUE, ml_categorizer |-> j.loader.exists,
                 vendor_mappings |-> VendorMappings],
                csv, ml))

\* categorize_bill(bill) of the constructed service
CategorizeWithLoaded ==
    /\ job.phase = "art"
    /\ job.loader.pc = "ready"
    /\ job.loader.reloaded \/ ~ReloadNeeded
    /\ \E drawn \in ArtPredictions :
           job' = CategorizeFrom(job,
                      categorize_by_keywords(VendorMappings, Categories,
                                             job.bill.vendor, job.bill.ocr_text),
                      predict_category(job.loader, drawn))
    /\ UNCHANGED <<bills, files, proc>>

NextArt ==
    \/ TrainModel
    \/ OpenArtifact
    \/ DumpArtifact
    \/ ConstructService
    \/ ReadModelFile
    \/ ReadVectorizerFile
    \/ ReloadModel
    \/ CategorizeWithLoaded

SpecArt == InitArt /\ [][NextArt]_vars

-----------------------------------------------------------------------------
(* extract_amount as a function of the lower-cased OCR text                  *)
(*                                                                          *)
(* The text is the sequence of its labeled fields. A field has the label    *)
(* that introduces it and the body that follows the label: a sequence of    *)
(* characters for a number field, a sequence of words for an "in words"     *)
(* field. Amounts are integers in hundredths.                                *)
(* job.text    the text handed to extract_amount                            *)
(* job.amount  what extract_amount returned, NoAmount for None              *)

MaxFields == 3

\* The value of a digit character, -1 for any other character (\d)
DigitValue(c) ==
    LET digits == <<"0", "1", "2", "3", "4", "5", "6", "7", "8", "9">>
    IN  IF \E i \in 1..10 : digits[i] = c
        THEN (CHOOSE i \in 1..10 : digits[i] = c) - 1
        ELSE -1

\* Group 1 of every amount pattern, (\d+(?:,\d{3})*\.?\d*), matched at the
\* start of s: the characters it captures, <<>> when s does not start with
\* a digit
AmountGroup(s) ==
    LET RECURSIVE Digits(_)
        Digits(i) == IF i <= Len(s) /\ DigitValue(s[i]) >= 0
                     THEN Digits(i + 1) ELSE i
        RECURSIVE Groups(_)
        Groups(i) == IF /\ i + 3 <= Len(s)
                        /\ s[i] = ","
                        /\ \A k \in 1..3 : DigitValue(s[i + k]) >= 0
                     THEN Groups(i + 4) ELSE i
        grouped == Groups(Digits(1))
        point == IF grouped <= Len(s) /\ s[grouped] = "."
                 THEN grouped + 1 ELSE grouped
    IN  SubSeq(s, 1, Digits(point) - 1)

\* Decimal(amount_str) after replace(',', ''), in hundredths (no text of the
\* model has more than two decimals)
DecimalOf(s) ==
    LET str == SelectSeq(s, LAMBDA c : c # ",")
        RECURSIVE Value(_, _, _)
        Value(i, acc, decimals) ==
            IF i > Len(str)
            THEN IF decimals <= 0 THEN acc * 100
                 ELSE IF decimals = 1 THEN acc * 10 ELSE acc
            ELSE IF str[i] = "." THEN Value(i + 1, acc, 0)
            ELSE IF decimals = -1
                 THEN Value(i + 1, acc * 10 + DigitValue(str[i]), -1)
            ELSE IF decimals < 2
                 THEN Value(i + 1, acc * 10 + DigitValue(str[i]), decimals + 1)
            ELSE Value(i + 1, acc, decimals)
    IN  Value(1, 0, -1)

\* words_to_number, with the entries of word_to_num that the texts use;
\* NoAmount for None
words_to_number(text) ==
    LET word_to_num == [zero |-> 0, one |-> 1, six |-> 6, nine |-> 9,
                        hundred |-> 100, thousand |-> 1000, lakh |-> 100000]
        words == SelectSeq(text, LAMBDA w : w \notin {"rupees", "rupee",
                                                       "only", "and"})
        RECURSIVE Sum(_, _, _)
        Sum(i, total, current) ==
            IF i > Len(words) THEN total + current
            ELSE IF words[i] \notin DOMAIN word_to_num
                 THEN Sum(i + 1, total, current)
            ELSE LET num == word_to_num[words[i]]
                     scaled == (IF current = 0 THEN 1 ELSE current) * num
                 IN  IF num >= 1000 THEN Sum(i + 1, total + scaled, 0)
                     ELSE IF num = 100 THEN Sum(i + 1, total, scaled)
                     ELSE Sum(i + 1, total, current + num)
        total == Sum(1, 0, 0)
    IN  IF total > 0 THEN total ELSE NoAmount

\* The labels after which a pattern of AMOUNT_PATTERNS finds its number
AMOUNT_PATTERNS == {"total amount", "grand total", "total", "$", "amount"}

\* A pattern that ends in the amount group matches the field
AmountMatches(field) == AmountGroup(field.body) # <<>>

extract_amount(text) ==
    LET Search(label) ==
            LET hits == {i \in DOMAIN text :
                            /\ text[i].label = label
                            /\ label # "in words" => AmountMatches(text[i])}
            IN  IF hits = {} THEN 0
                ELSE CHOOSE i \in hits : \A k \in hits : i <= k
        Group(i) == DecimalOf(AmountGroup(text[i].body))
        grand_total == Search("grand total")
        total_amount == Search("total amount")
        in_words == Search("in words")
        amount_from_words ==
            IF in_words = 0 THEN NoAmount
            ELSE words_to_number(text[in_words].body)
        total_with_amount == Search("total")
        amounts == {Group(i) : i \in {k \in DOMAIN text :
                                        /\ text[k].label \in AMOUNT_PATTERNS
                                        /\ AmountMatches(text[k])}}
    IN  IF grand_total # 0 THEN Group(grand_total)
        ELSE IF total_amount # 0 THEN Group(total_amount)
        ELSE IF amount_from_words > 0 THEN amount_from_words * 100
        ELSE IF total_with_amount # 0 THEN Group(total_with_amount)
        ELSE IF amounts # {}
             THEN CHOOSE a \in amounts : \A b \in amounts : b <= a
        ELSE NoAmount

\* The fields the texts are made of
AmountFields ==
    { [label |-> "grand total", body |-> <<"6", ",", "9", "0", "0", ".", "0", "0">>],
      [label |-> "grand total", body |-> <<"1", ",", "2", "3", ",", "4", "5", "6">>],
      [label |-> "grand total", body |-> <<"r", "s", ".", "6", ",", "9", "0", "0">>],
      [label |-> "total amount", body |-> <<"9", "9", ",", "9", "9", "9">>],
      [label |-> "in words",
       body |-> <<"six", "thousand", "nine", "hundred", "only">>],
      [label |-> "in words", body |-> <<"thank", "you">>],
      [label |-> "total", body |-> <<"7", ",", "0", "0", "0">>],
      [label |-> "$", body |-> <<"1", "5", "0", ".", "5", "0">>],
      [label |-> "amount", body |-> <<"8", "8">>] }

InitAmount ==
    /\ bills = <<>>
    /\ files = {}
    /\ proc = [p \in Uploads |-> Idle]
    /\ job \in [phase : {"text"},
                text : UNION {[1..n -> AmountFields] : n \in 0..MaxFields},
                amount : {NoAmount}]

ExtractAmount ==
    /\ job.phase = "text"
    /\ job' = [job EXCEPT !.phase = "amount",
                          !.amount = extract_amount(job.text)]
    /\ UNCHANGED <<bills, files, proc>>

SpecAmount == InitAmount /\ [][ExtractAmount]_vars

-----------------------------------------------------------------------------
(* extract_tax as a function of the lower-cased OCR text                     *)
(*                                                                          *)
(* The text is the sequence of its lines; a line is the label it starts     *)
(* with and the body that follows the label. Amounts are in hundredths.     *)
(* job.text  the text handed to extract_tax                                 *)
(* job.tax   what extract_tax returned, NoAmount for None                   *)

\* extract_cgst (kind "cgst") and extract_sgst (kind "sgst"): the number of
\* the first line on which kind\s*amt?\s*:?\s*<group 1> matches, NoAmount
\* for None
extract_gst(text, kind) ==
    LET hits == {i \in DOMAIN text :
                    /\ text[i].label = <<kind, "amt:">>
                    /\ AmountGroup(text[i].body) # <<>>}
    IN  IF hits = {} THEN NoAmount
        ELSE DecimalOf(AmountGroup(
                 text[CHOOSE i \in hits : \A k \in hits : i <= k].body))

extract_tax(text) ==
    LET cgst == extract_gst(text, "cgst")
        sgst == extract_gst(text, "sgst")
        \* bool() of an optional Decimal: None and Decimal 0 are false
        Truth(amount) == amount # NoAmount /\ amount # 0
        rate == <<"1", "3">>
        \* What group 1 of the n-th pattern of TAX_PATTERNS captures on a
        \* line, <<>> when the pattern does not match the line. Of the
        \* labels of the texts, "sales tax" and "tax <rate>%" do not occur.
        Captured(n, line) ==
            LET number == AmountGroup(line.body)
            IN  IF n = 1
                THEN IF line.label = <<"vat", "13%">> THEN number ELSE <<>>
                ELSE IF n = 3
                THEN IF line.label \in {<<"cgst", "amt:">>, <<"sgst", "amt:">>}
                     THEN number ELSE <<>>
                ELSE IF n = 4
                THEN IF line.label \in {<<"gst:">>, <<"tax:">>}
                     THEN number ELSE <<>>
                ELSE IF n = 5
                THEN IF line.label = <<"tax:">> THEN number ELSE <<>>
                ELSE IF n = 6
                THEN IF line.label = <<"vat:">> THEN number
                     ELSE IF line.label = <<"vat", "13%">> THEN rate
                     ELSE <<>>
                ELSE <<>>
        Matching(n) == {i \in DOMAIN text : Captured(n, text[i]) # <<>>}
        patterns == {n \in 1..6 : Matching(n) # {}}
    IN  IF Truth(cgst) /\ Truth(sgst) THEN cgst + sgst
        ELSE IF patterns = {} THEN NoAmount
        ELSE LET n == CHOOSE n \in patterns : \A k \in patterns : n <= k
                 i == CHOOSE i \in Matching(n) : \A k \in Matching(n) : i <= k
             IN  DecimalOf(Captured(n, text[i]))

InitTax ==
    LET lines ==
          { [label |-> <<"cgst", "amt:">>, body |-> <<"4", "5">>],
            [label |-> <<"cgst", "amt:">>, body |-> <<"0">>],
            [label |-> <<"sgst", "amt:">>, body |-> <<"4", "5", ".", "5", "0">>],
            [label |-> <<"sgst", "amt:">>, body |-> <<"0", ".", "0", "0">>],
            [label |-> <<"sgst", "amt:">>, body |-> <<"r", "s", ".", "4", "5">>],
            [label |-> <<"tax:">>, body |-> <<"1", ",", "2", "0", "0">>],
            [label |-> <<"vat", "13%">>, body |-> <<"5", "0", "0">>],
            [label |-> <<"gst:">>, body |-> <<"9", "0">>],
            [label |-> <<"vat:">>, body |-> <<"6", "5">>] }
    IN  /\ bills = <<>>
        /\ files = {}
        /\ proc = [p \in Uploads |-> Idle]
        /\ job \in [phase : {"text"},
                    text : UNION {[1..n -> lines] : n \in 0..MaxFields},
                    tax : {NoAmount}]

ExtractTax ==
    /\ job.phase = "text"
    /\ job' = [job EXCEPT !.phase = "tax", !.tax = extract_tax(job.text)]
    /\ UNCHANGED <<bills, files, proc>>

SpecTax == InitTax /\ [][ExtractTax]_vars

-----------------------------------------------------------------------------
(* extract_vendor as a function of the lines of the OCR text                 *)
(*                                                                          *)
(* job.lines   the lines handed to extract_vendor                           *)
(* job.vendor  what extract_vendor returned, None for None                  *)

MaxBody == 2

\* lines[:15]
first_lines == 15

skip_exact_terms ==
    { <<"t", "a", "x", " ", "i", "n", "v", "o", "i", "c", "e">>,
      <<"i", "n", "v", "o", "i", "c", "e">>,
      <<"b", "i", "l", "l">>,
      <<"o", "r", "i", "g", "i", "n", "a", "l">>,
      <<"d", "u", "p", "l", "i", "c", "a", "t", "e">>,
      <<"o", "r", "i", "g", "i", "n", "a", "l", " ", "/", " ", "d", "u", "p", "l", "i", "c", "a", "t", "e">>,
      <<"o", "r", "i", "g", "i", "n", "a", "l", " ", "/", "d", "u", "p", "l", "i", "c", "a", "t", "e">>,
      <<"t", "a", "x", " ", "i", "n", "v", "o", "i", "c", "e", " ", "o", "r", "i", "g", "i", "n", "a", "l">>,
      <<"t", "a", "x", " ", "i", "n", "v", "o", "i", "c", "e", " ", "d", "u", "p", "l", "i", "c", "a", "t", "e">>,
      <<"o", "r", "i", "g", "i", "n", "a", "l", " ", "/", "d", "u", "p", "l", "i", "c", "a", "t", "e", " ", "b", "i", "l", "l">>,
      <<"t", "a", "x", " ", "i", "n", "v", "o", "i", "c", "e", " ", "o", "r", "i", "g", "i", "n", "a", "l", " ", "/", "d", "u", "p", "l", "i", "c", "a", "t", "e", " ", "b", "i", "l", "l">>,
      <<"r", "e", "c", "e", "i", "p", "t">>,
      <<"e", "s", "t", "i", "m", "a", "t", "e">>,
      <<"q", "u", "o", "t", "a", "t", "i", "o", "n">>,
      <<"c", "h", "a", "l", "l", "a", "n">>,
      <<"p", "r", "o", "f", "o", "r", "m", "a", " ", "i", "n", "v", "o", "i", "c", "e">> }

\* The score with which the line at index i (from 0) becomes a candidate,
\* NoScore when the loop body skips it or no branch appends it
VendorScore(i, raw) ==
    LET line == Strip(raw)
        line_lower == Lower(line)
        skip_keywords ==
            { <<"g", "s", "t", "i", "n">>,
              <<"g", "s", "t", " ", "n", "o">>,
              <<"p", "a", "n", " ", "n", "o">>,
              <<"c", "i", "n", " ", "n", "o">>,
              <<"b", "i", "l", "l", " ", "t", "o">>,
              <<"s", "h", "i", "p", " ", "t", "o">>,
              <<"c", "o", "n", "t", "a", "c", "t", " ", "n", "o">>,
              <<"d", "u", "e", " ", "d", "a", "t", "e">>,
              <<"i", "n", "v", "o", "i", "c", "e", " ", "d", "a", "t", "e">>,
              <<"i", "n", "v", "o", "i", "c", "e", " ", "#">>,
              <<"i", "n", "v", "o", "i", "c", "e", " ", "n", "o">>,
              <<"p", ".", "o", ".", "#">>,
              <<"t", "e", "r", "m", "s">>,
              <<"b", "u", "y", "e", "r", " ", "n", "a", "m", "e">>,
              <<"b", "u", "y", "e", "r">>,
              <<"c", "u", "s", "t", "o", "m", "e", "r", " ", "n", "a", "m", "e">>,
              <<"v", "a", "t", "/", "p", "a", "n", " ", "n", "o">>,
              <<"a", "d", "d", "r", "e", "s", "s", " ", ":">>,
              <<"i", "s", "s", "u", "e", "d", " ", "t", "o">>,
              <<"d", "a", "t", "e", " ", "i", "s", "s", "u", "e", "d">>,
              <<"b", "i", "l", "l", "e", "d", " ", "t", "o">>,
              <<"s", "o", "l", "d", " ", "t", "o">>,
              <<"i", "s", "s", "u", "e", "d", " ", "b", "y">>,
              <<"a", "t", "t", "e", "n", "t", "i", "o", "n">>,
              <<"a", "t", "t", "n", ":">>,
              <<"c", "l", "i", "e", "n", "t">>,
              <<"c", "u", "s", "t", "o", "m", "e", "r">>,
              <<"@">>,
              <<"e", "m", "a", "i", "l">>,
              <<"m", "a", "i", "l">>,
              <<".", "c", "o", "m">>,
              <<".", "n", "e", "t">>,
              <<".", "o", "r", "g">>,
              <<"|">> }
        VENDOR_INDICATORS ==
            { <<"s", "t", "o", "r", "e">>,
              <<"m", "a", "r", "k", "e", "t">>,
              <<"s", "h", "o", "p">>,
              <<"r", "e", "s", "t", "a", "u", "r", "a", "n", "t">>,
              <<"c", "a", "f", "e">>,
              <<"g", "a", "s">>,
              <<"p", "h", "a", "r", "m", "a", "c", "y">>,
              <<"h", "o", "s", "p", "i", "t", "a", "l">>,
              <<"c", "l", "i", "n", "i", "c">>,
              <<"h", "o", "t", "e", "l">>,
              <<"a", "i", "r", "l", "i", "n", "e">>,
              <<"t", "a", "x", "i">>,
              <<"u", "b", "e", "r">>,
              <<"l", "y", "f", "t">> }
        address_words ==
            { <<"p", "l", "o", "t">>,
              <<"b", "u", "i", "l", "d", "i", "n", "g">>,
              <<"b", "l", "d", "g">>,
              <<"f", "l", "o", "o", "r">>,
              <<"s", "t", "r", "e", "e", "t">>,
              <<"r", "o", "a", "d">>,
              <<"c", "r", "o", "s", "s">>,
              <<"l", "a", "n", "e">>,
              <<"a", "v", "e", "n", "u", "e">>,
              <<"d", "r", "i", "v", "e">> }
        contact_words ==
            { <<"c", "o", "n", "t", "a", "c", "t">>,
              <<"p", "h", "o", "n", "e">>,
              <<"m", "o", "b", "i", "l", "e">>,
              <<"e", "m", "a", "i", "l">>,
              <<"f", "a", "x">>,
              <<"t", "e", "l">> }
        company_words ==
            { <<"i", "n", "c">>,
              <<"l", "l", "c">>,
              <<"l", "t", "d">>,
              <<"c", "o", "r", "p">>,
              <<"p", "v", "t">>,
              <<"l", "i", "m", "i", "t", "e", "d">>,
              <<"c", "o", "r", "p", "o", "r", "a", "t", "i", "o", "n">>,
              <<"c", "o", "m", "p", "a", "n", "y">> }
        IsUpperChar(c) == \E k \in 1..26 : UpperChars[k] = c
        IsLowerChar(c) == \E k \in 1..26 : LowerChars[k] = c
        WordChar(c) == IsUpperChar(c) \/ IsLowerChar(c) \/ DigitValue(c) >= 0 \/ c = "_"
        \* \b word \b
        WordBounded(s, w) ==
            \E k \in 0..(Len(s) - Len(w)) :
                /\ SubSeq(s, k + 1, k + Len(w)) = w
                /\ k = 0 \/ ~WordChar(s[k])
                /\ k + Len(w) = Len(s) \/ ~WordChar(s[k + Len(w) + 1])
        isupper == /\ \E k \in DOMAIN line : IsUpperChar(line[k])
                   /\ \A k \in DOMAIN line : ~IsLowerChar(line[k])
        \* line.split(): the positions at which a word starts
        words == {k \in DOMAIN line :
                     /\ ~IsSpace(line[k])
                     /\ k = 1 \/ IsSpace(line[k - 1])}
        capitalized_words == Cardinality({k \in words : IsUpperChar(line[k])})
        indicator == \E w \in VENDOR_INDICATORS : Contains(line_lower, w)
        Bonus(cond, n) == IF cond THEN n ELSE 0
    IN  IF Len(line) < 3 THEN NoScore
        ELSE IF line_lower \in skip_exact_terms THEN NoScore
        ELSE IF \E w \in skip_keywords : Contains(line_lower, w) THEN NoScore
        ELSE IF \A k \in DOMAIN line :
                    \/ DigitValue(line[k]) >= 0
                    \/ line[k] \in {" ", "-", "/", ":", ",", ".", "#", "(", ")"}
             THEN NoScore
        ELSE IF \/ line[1] = "#" \/ DigitValue(line[1]) >= 0
                \/ \E w \in address_words : Contains(line_lower, w)
             THEN NoScore
        ELSE IF \E w \in contact_words : Contains(line_lower, w) THEN NoScore
        ELSE IF \E w \in company_words : WordBounded(line_lower, w)
             THEN 15 + Bonus(1 <= i /\ i < 5, 5)
        ELSE IF isupper /\ Len(line) > 5
             THEN IF Cardinality(words) >= 2 \/ indicator
                  THEN 10 + Bonus(2 <= i /\ i < 8, 5) + Bonus(indicator, 3)
                  ELSE IF Cardinality(words) = 1 /\ Len(line) >= 5
                       THEN 12 + Bonus(i < 5, 8)
                       ELSE NoScore
        ELSE IF IsUpperChar(line[1]) /\ ~isupper /\ Len(line) > 5
             THEN IF capitalized_words >= 2 \/ indicator
                  THEN 8 + Bonus(1 <= i /\ i < 5, 4) + Bonus(indicator, 3)
                  ELSE NoScore
        ELSE IF indicator /\ Cardinality(words) >= 2
             THEN 7 + Bonus(2 <= i /\ i < 8, 3)
        ELSE NoScore

\* The clean-up of the winner: re.sub(r'[\[\]\{\}\(\)]+$', ''), then
\* re.sub(r'\s*[\d\]\|]+$', ''), then strip()
CleanVendor(vendor_name) ==
    LET RECURSIVE DropLast(_, _)
        DropLast(s, class) ==
            IF s # <<>> /\ s[Len(s)] \in class
            THEN DropLast(SubSeq(s, 1, Len(s) - 1), class) ELSE s
        unbracketed == DropLast(vendor_name, {"[", "]", "{", "}", "(", ")"})
        undigited == DropLast(unbracketed,
                              {"0", "1", "2", "3", "4", "5", "6", "7", "8",
                               "9", "]", "|"})
    IN  IF undigited = unbracketed THEN Strip(unbracketed)
        ELSE Strip(RStrip(undigited))

\* The index (from 1) of the candidate that candidates.sort(reverse=True,
\* key=score) puts first: the highest score, and of equal scores the one
\* appended first (the sort is stable); 0 without candidates
VendorWinner(lines) ==
    LET checked == {k \in DOMAIN lines : k <= first_lines}
        candidates == {k \in checked : VendorScore(k - 1, lines[k]) # NoScore}
    IN  IF candidates = {} THEN 0
        ELSE CHOOSE k \in candidates : \A m \in candidates :
                 \/ VendorScore(m - 1, lines[m]) < VendorScore(k - 1, lines[k])
                 \/ /\ VendorScore(m - 1, lines[m]) = VendorScore(k - 1, lines[k])
                    /\ k <= m

extract_vendor(lines) ==
    IF VendorWinner(lines) = 0 THEN None
    ELSE CleanVendor(Strip(lines[VendorWinner(lines)]))

\* The lines the texts are made of, and a line of digits that fills the
\* text before them
VendorLines ==
    { <<"T", "A", "X", " ", "I", "N", "V", "O", "I", "C", "E">>,
      <<"B", "i", "l", "l", " ", "T", "o", ":", " ", "A", "C", "M", "E", " ", "C", "O", "R", "P", " ", "L", "T", "D">>,
      <<"R", "E", "C", "E", "I", "P", "T", " ", "0", "0", "1", "2", "3">>,
      <<"E", "a", "s", "t", " ", "R", "e", "p", "a", "i", "r", " ", "I", "n", "c", ".">>,
      <<"Z", "E", "N", "I", "T", " ", "S", "T", "O", "R", "E">>,
      <<"I", "C", "O", "N", "V", "I", "B", "E">>,
      <<"M", "o", "x", "i", "e", " ", "C", "a", "f", "e", " ", "2", "]">>,
      <<"m", "o", "x", "i", "e", " ", "c", "a", "f", "e", " ", "d", "o", "w", "n", "t", "o", "w", "n">>,
      <<" ">> }

VendorTexts ==
    LET filler == <<"1", "2", "/", "0", "3", "/", "2", "0", "2", "4">>
        bodies == UNION {[1..n -> VendorLines] : n \in 0..MaxBody}
    IN  {[k \in 1..n |-> filler] \o body :
            n \in {0, 1, 2, 5, first_lines - 2, first_lines - 1, first_lines},
            body \in bodies}

InitVendor ==
    /\ bills = <<>>
    /\ files = {}
    /\ proc = [p \in Uploads |-> Idle]
    /\ job \in [phase : {"lines"}, lines : VendorTexts, vendor : {None}]

ExtractVendor ==
    /\ job.phase = "lines"
    /\ job' = [job EXCEPT !.phase = "vendor",
                          !.vendor = extract_vendor(job.lines)]
    /\ UNCHANGED <<bills, files, proc>>

SpecVendor == InitVendor /\ [][ExtractVendor]_vars

-----------------------------------------------------------------------------
(* extract_date as a function of the lower-cased OCR text                    *)
(*                                                                          *)
(* The text holds one date string, str, after a label. Only the first of    *)
(* DATE_PATTERNS needs the label ("invoice date"); the second and third     *)
(* capture, right after a label, what the fourth finds anywhere, so the     *)
(* three are one search. A text of kind "named" holds a date written with   *)
(* a month name, str = <<name, day digits, year digits>> for                *)
(* "name day, year"; strptime knows the month names the texts use.          *)
(* nepali_datetime is not part of the repository: the date it converts a    *)
(* Bikram Sambat date to is written as that date with from_bs set, and      *)
(* whether the Bikram Sambat calendar has the day is an input, day_exists.  *)
(* job.text   the label and the date string                                 *)
(* job.date   what extract_date returned; found is FALSE for None           *)

extract_date(text, day_exists) ==
    LET s == text.str
        NoDate == [found |-> FALSE, year |-> 0, month |-> 0, day |-> 0,
                   from_bs |-> FALSE]
        Number(digits) == DecimalOf(digits) \div 100
        IsDigits(str) == \A k \in DOMAIN str : DigitValue(str[k]) >= 0
        RECURSIVE Run(_)
        \* the number of digits of s from position i on
        Run(i) == IF i <= Len(s) /\ DigitValue(s[i]) >= 0
                  THEN 1 + Run(i + 1) ELSE 0
        IsSep(i) == i <= Len(s) /\ s[i] \in {"-", "/"}
        \* the match of \d{lo,hi}[-/]\d{1,2}[-/]\d{lo3,hi3} that starts at i
        At(i, lo, hi, lo3, hi3) ==
            LET j == i + Run(i)
                k == j + 1 + Run(j + 1)
                n3 == Min(Run(k + 1), hi3)
            IN  IF /\ Run(i) >= lo /\ Run(i) <= hi /\ IsSep(j)
                   /\ Run(j + 1) >= 1 /\ Run(j + 1) <= 2 /\ IsSep(k)
                   /\ n3 >= lo3
                THEN SubSeq(s, i, k + n3) ELSE <<>>
        \* group 1 of re.search: the leftmost match
        Search(lo, hi, lo3, hi3) ==
            LET hits == {i \in DOMAIN s : At(i, lo, hi, lo3, hi3) # <<>>}
            IN  IF hits = {} THEN <<>>
                ELSE At(CHOOSE i \in hits : \A k \in hits : i <= k,
                        lo, hi, lo3, hi3)
        \* ((?:Jan|...|Dec)[a-z]*\s+\d{1,2},?\s+\d{2,4}) on a named text
        month_names == [jan |-> 1, january |-> 1, dec |-> 12, december |-> 12]
        abbreviated == {"jan", "dec"}
        named == text.kind = "named"
        Leap(y) == y % 4 = 0 /\ (y % 100 # 0 \/ y % 400 = 0)
        DaysIn(y, m) == IF m = 2 THEN (IF Leap(y) THEN 29 ELSE 28)
                        ELSE IF m \in {4, 6, 9, 11} THEN 30 ELSE 31
        \* datetime(year, month, day).date(), NoDate for ValueError
        Date(y, m, d) ==
            IF y >= 1 /\ m >= 1 /\ m <= 12 /\ d >= 1 /\ d <= DaysIn(y, m)
            THEN [found |-> TRUE, year |-> y, month |-> m, day |-> d,
                  from_bs |-> FALSE]
            ELSE NoDate
        \* the 10-digit branch: both attempts read the same digits
        Ten(str) ==
            LET month == Number(SubSeq(str, 1, 2))
                day == Number(SubSeq(str, 3, 4))
                year == Number(SubSeq(str, 7, 10))
            IN  IF /\ 1 <= month /\ month <= 12 /\ 1 <= day /\ day <= 31
                   /\ 1900 <= year /\ year <= 2100
                THEN Date(year, month, day) ELSE NoDate
        \* the 8-digit branch: MMDDYYYY, then DDMMYYYY
        Eight(str) ==
            LET a == Number(SubSeq(str, 1, 2))
                b == Number(SubSeq(str, 3, 4))
                year == Number(SubSeq(str, 5, 8))
                mdy == IF 1 <= a /\ a <= 12 /\ 1 <= b /\ b <= 31
                       THEN Date(year, a, b) ELSE NoDate
                dmy == IF 1 <= b /\ b <= 12 /\ 1 <= a /\ a <= 31
                       THEN Date(year, b, a) ELSE NoDate
            IN  IF mdy.found THEN mdy ELSE dmy
        \* the three fields of a string with two separators
        Fields(str) ==
            LET seps == {k \in DOMAIN str : str[k] \in {"-", "/"}}
                j == CHOOSE k \in seps : \A m \in seps : k <= m
                k == CHOOSE k \in seps : \A m \in seps : m <= k
            IN  [a |-> SubSeq(str, 1, j - 1), b |-> SubSeq(str, j + 1, k - 1),
                 c |-> SubSeq(str, k + 1, Len(str)),
                 seps |-> <<str[j], str[k]>>]
        date_formats ==
            << [sep |-> "-", order |-> "dmy", year |-> 2],
               [sep |-> "/", order |-> "dmy", year |-> 2],
               [sep |-> "-", order |-> "dmy", year |-> 4],
               [sep |-> "/", order |-> "dmy", year |-> 4],
               [sep |-> "/", order |-> "mdy", year |-> 4],
               [sep |-> "-", order |-> "mdy", year |-> 4],
               [sep |-> "-", order |-> "ymd", year |-> 4],
               [sep |-> " ", order |-> "B", year |-> 4],
               [sep |-> " ", order |-> "b", year |-> 4] >>
        \* %d and %m take one or two digits, %y two and %Y four; %y puts
        \* 00-68 in 2000-2068 and 69-99 in 1969-1999
        Year(digits, n) ==
            IF Len(digits) # n THEN 0
            ELSE IF n = 4 THEN Number(digits)
            ELSE IF Number(digits) <= 68 THEN 2000 + Number(digits)
            ELSE 1900 + Number(digits)
        Short(digits) == IF Len(digits) \in 1..2 THEN Number(digits) ELSE 0
        \* datetime.strptime(str, fmt).date(), NoDate for ValueError
        strptime(str, fmt) ==
            IF named # (fmt.order \in {"B", "b"}) THEN NoDate
            ELSE IF named
                 THEN IF (fmt.order = "b") # (str[1] \in abbreviated) THEN NoDate
                      ELSE Date(Year(str[3], 4), month_names[str[1]],
                                Short(str[2]))
            ELSE LET f == Fields(str)
                 IN  IF f.seps # <<fmt.sep, fmt.sep>> THEN NoDate
                     ELSE IF fmt.order = "dmy"
                          THEN Date(Year(f.c, fmt.year), Short(f.b), Short(f.a))
                     ELSE IF fmt.order = "mdy"
                          THEN Date(Year(f.c, fmt.year), Short(f.a), Short(f.b))
                     ELSE Date(Year(f.a, fmt.year), Short(f.b), Short(f.c))
        \* lines 409-426 for the date a format parsed; every Bikram Sambat
        \* month has at least 29 days
        Converted(parsed_date) ==
            IF /\ parsed_date.year >= 2070 /\ parsed_date.year <= 2100
               /\ (day_exists \/ parsed_date.day <= 29)
            THEN [parsed_date EXCEPT !.from_bs = TRUE]
            ELSE IF parsed_date.year < 2000
                 THEN [parsed_date EXCEPT !.year = parsed_date.year + 2000]
            ELSE parsed_date
        Formatted(str) ==
            LET parses == {n \in DOMAIN date_formats :
                              strptime(str, date_formats[n]).found}
            IN  IF parses = {} THEN NoDate
                ELSE Converted(strptime(str,
                         date_formats[CHOOSE n \in parses :
                                          \A m \in parses : n <= m]))
        \* the body of the loop for one match
        Parsed(date_str) ==
            IF date_str = <<>> THEN NoDate
            ELSE IF named THEN Formatted(date_str)
            ELSE IF IsDigits(date_str)
                 THEN IF Len(date_str) = 10 THEN Ten(date_str)
                      ELSE IF Len(date_str) = 8 THEN Eight(date_str)
                      ELSE NoDate
            ELSE Formatted(date_str)
        groups == IF named THEN << s >>
                  ELSE << IF text.label = "invoice date" /\ Run(1) >= 8
                          THEN SubSeq(s, 1, Min(Run(1), 10)) ELSE <<>>,
                          Search(1, 2, 2, 4), Search(2, 4, 1, 2) >>
        found == {n \in DOMAIN groups : Parsed(groups[n]).found}
    IN  IF found = {} THEN NoDate
        ELSE Parsed(groups[CHOOSE n \in found : \A m \in found : n <= m])

InitDate ==
    LET first == {<<"0", "1">>, <<"1", "5">>, <<"3", "1">>, <<"5">>}
        second == {<<"0", "1">>, <<"0", "2">>, <<"1", "2">>, <<"1", "5">>}
        years == {<<"2", "5">>, <<"9", "9">>, <<"2", "0", "2", "4">>,
                  <<"1", "9", "9", "9">>, <<"2", "0", "8", "1">>}
        numeric == UNION {{a \o <<sep>> \o b \o <<sep>> \o y,
                           y \o <<sep>> \o b \o <<sep>> \o a,
                           a \o b \o y,
                           a \o b \o <<"0", "0">> \o y} :
                          a \in first, b \in second, y \in years,
                          sep \in {"-", "/"}}
        names == {"jan", "january", "dec", "december"}
        texts == [label : {"invoice date", "none"}, kind : {"numeric"},
                  str : numeric]
                 \cup {[label |-> "none", kind |-> "named",
                        str |-> <<name, <<"3", "1">>, <<"2", "0", "8", "1">>>>] :
                       name \in names}
    IN  /\ bills = <<>>
        /\ files = {}
        /\ proc = [p \in Uploads |-> Idle]
        /\ job \in [phase : {"text"}, text : texts, day_exists : BOOLEAN,
                     date : {[found |-> FALSE]}]

ExtractDate ==
    /\ job.phase = "text"
    /\ job' = [job EXCEPT !.phase = "date",
                          !.date = extract_date(job.text, job.day_exists)]
    /\ UNCHANGED <<bills, files, proc>>

SpecDate == InitDate /\ [][ExtractDate]_vars

-----------------------------------------------------------------------------
(* Duplicate detection *)

Stored(p) == p \in DOMAIN bills

\* Two uploads carry the same invoice of the same vendor for the same user
SameBill(p, q) ==
    /\ proc[p].user = proc[q].user
    /\ Truthy(proc[p].instance.invoice_number)
    /\ Truthy(proc[p].instance.vendor)
    /\ Truthy(proc[q].instance.invoice_number)
    /\ Truthy(proc[q].instance.vendor)
    /\ Lower(proc[p].instance.invoice_number) = Lower(proc[q].instance.invoice_number)
    /\ Lower(proc[p].instance.vendor) = Lower(proc[q].instance.vendor)

\* C1: of two concurrent uploads by one user whose invoice numbers and
\* vendors are equal up to letter case, at most one ends with its bill
\* record persisted.
C1_AtMostOneDuplicateSucceeds ==
    \A p \in Uploads : \A q \in Uploads :
        (p # q /\ proc[p].pc = "done" /\ proc[q].pc = "done" /\ SameBill(p, q))
            => ~(Stored(p) /\ Stored(q))

\* The stored bills of the same user, other than p's own row, whose invoice
\* number and vendor equal the instance's up to letter case
StoredSameInvoiceAndVendor(p, instance) ==
    {i \in DOMAIN bills \ {p} :
        /\ bills[i].user = instance.user
        /\ bills[i].invoice_number # None
        /\ bills[i].vendor # None
        /\ Lower(bills[i].invoice_number) = Lower(instance.invoice_number)
        /\ Lower(bills[i].vendor) = Lower(instance.vendor)}

\* C2: an upload with an invoice number and a vendor leaves the first
\* duplicate check as a duplicate exactly when a stored bill of the same
\* user has the same invoice number and the same vendor up to letter case;
\* the duplicate it names is such a bill, so a bill of another user never
\* causes the rejection.
C2_FirstCheckMatchesSameUserOnly ==
    [][\A p \in Uploads :
          (/\ proc[p].pc = "created"
           /\ proc'[p].pc \in {"duplicate", "check2", "save"}
           /\ Truthy(proc'[p].instance.invoice_number)
           /\ Truthy(proc'[p].instance.vendor))
          => /\ (proc'[p].pc = "duplicate" /\ proc'[p].reason = "vendor")
                    <=> StoredSameInvoiceAndVendor(p, proc'[p].instance) # {}
             /\ proc'[p].pc = "duplicate"
                    => proc'[p].duplicate \in
                           StoredSameInvoiceAndVendor(p, proc'[p].instance)]_vars

\* An upload was rejected by the first check because of a bill whose vendor
\* is written in another letter case, while another user holds nothing
C2_Witness ==
    \E p \in Uploads :
        /\ proc[p].pc = "rejected"
        /\ proc[p].reason = "vendor"
        /\ proc[p].duplicate \in DOMAIN bills
        /\ bills[proc[p].duplicate].user = proc[p].user
        /\ bills[proc[p].duplicate].vendor # proc[p].instance.vendor

\* C3: after a duplicate rejection, by a check before the save or by the
\* unique constraint at the save, neither the upload's bill record nor its
\* image is left.
C3_RejectionLeavesNothing ==
    \A p \in Uploads :
        proc[p].pc = "rejected" => (p \notin DOMAIN bills /\ p \notin files)

\* C4: an upload is rejected as a duplicate only if it has an invoice
\* number and a stored bill of the same user has the same invoice number up
\* to letter case; so uploads with pairwise different invoice numbers are
\* all accepted, and an upload without invoice number is never rejected.
C4_RejectedOnlyForSameInvoice ==
    \A p \in Uploads :
        proc[p].pc \in {"duplicate", "rejected"}
            => /\ Truthy(proc[p].instance.invoice_number)
               /\ \E i \in DOMAIN bills \ {p} :
                      /\ bills[i].user = proc[p].user
                      /\ bills[i].invoice_number # None
                      /\ Lower(bills[i].invoice_number)
                             = Lower(proc[p].instance.invoice_number)

\* Two uploads of one user with the same tax ID in their texts and
\* different invoice numbers were both accepted
C4_Witness ==
    \E p \in Uploads : \E q \in Uploads :
        /\ p # q
        /\ proc[p].pc = "done" /\ proc[q].pc = "done"
        /\ proc[p].user = proc[q].user
        /\ Truthy(proc[p].extracted_pan_vat)
        /\ proc[p].extracted_pan_vat = proc[q].extracted_pan_vat
        /\ Truthy(proc[p].instance.invoice_number)
        /\ Truthy(proc[q].instance.invoice_number)
        /\ Lower(proc[p].instance.invoice_number)
               # Lower(proc[q].instance.invoice_number)
        /\ Stored(p) /\ Stored(q)

\* The stored bills of the same user, other than p's own row, whose invoice
\* number equals the upload's up to letter case and whose OCR text holds the
\* tax ID extracted from the upload
StoredSameInvoiceAndTaxId(p) ==
    {i \in DOMAIN bills \ {p} :
        /\ bills[i].user = proc[p].user
        /\ bills[i].invoice_number # None
        /\ Lower(bills[i].invoice_number) = Lower(proc[p].instance.invoice_number)
        /\ \E o \in bills[i].ocr_text.ids :
               Contains(Lower(o.id), Lower(proc[p].extracted_pan_vat))}

\* C22: an upload that passed the first check with an invoice number and a
\* tax ID is rejected when a stored bill of the same user has that invoice
\* number up to letter case and that tax ID in its OCR text, whatever the
\* vendors, and the bill it names is such a bill; an upload that the first
\* check stops is reported with the vendor reason and a bill of the first
\* check, whatever the second check would find.
C22_SecondCheckByTaxId ==
    [][\A p \in Uploads :
          /\ (proc[p].pc = "created" /\ proc'[p].pc = "check2")
                 => /\ Truthy(proc'[p].instance.invoice_number)
                    /\ Truthy(proc'[p].extracted_pan_vat)
          /\ (proc[p].pc = "created" /\ proc'[p].pc = "save")
                 => ~(/\ Truthy(proc'[p].instance.invoice_number)
                      /\ Truthy(proc'[p].extracted_pan_vat))
          /\ (proc[p].pc = "check2" /\ proc'[p].pc # "check2")
                 => IF StoredSameInvoiceAndTaxId(p) # {}
                    THEN /\ proc'[p].pc = "duplicate"
                         /\ proc'[p].reason = "pan"
                         /\ proc'[p].duplicate \in StoredSameInvoiceAndTaxId(p)
                    ELSE proc'[p].pc = "save"
          /\ (proc[p].pc = "created" /\ proc'[p].pc = "duplicate")
                 => /\ proc'[p].reason = "vendor"
                    /\ proc'[p].duplicate \in
                           StoredSameInvoiceAndVendor(p, proc'[p].instance)
          /\ (proc[p].pc = "duplicate" /\ proc'[p].pc # "duplicate")
                 => /\ proc'[p].pc = "rejected"
                    /\ proc'[p].reason = proc[p].reason]_vars

\* An upload was rejected by the second check because of a stored bill with
\* another vendor
C22_Witness ==
    \E p \in Uploads :
        /\ proc[p].pc = "rejected"
        /\ proc[p].reason = "pan"
        /\ proc[p].duplicate \in StoredSameInvoiceAndTaxId(p)
        /\ Lower(bills[proc[p].duplicate].vendor)
               # Lower(proc[p].instance.vendor)

\* Upload p has ended after an exception that is not the duplicate
\* rejection: process_bill_image raised, or the code after the checks did
RaisedIn(p) ==
    /\ proc[p].pc \in {"done", "rejected", "error"}
    /\ proc[p].doc.fails \/ proc[p].reason = "exception"

\* C29: an upload in which OCR, categorization or classification raised
\* ends by returning the bill, whose row is stored with the 'OCR Error'
\* text; the row of an upload is missing only after a duplicate rejection.
C29_ExceptionKeepsUpload ==
    \A p \in Uploads :
        /\ RaisedIn(p) => /\ proc[p].pc = "done"
                          /\ p \in DOMAIN bills
                          /\ bills[p].ocr_text = ErrorText
        /\ (proc[p].pc # "idle" /\ p \notin DOMAIN bills)
           => proc[p].pc = "rejected"

-----------------------------------------------------------------------------
(* Transaction role *)

RoleConsistent(bill) ==
    \/ /\ bill.transaction_type = "DEBIT"
       /\ bill.account_type = "EXPENSE"
       /\ bill.is_debit = TRUE
    \/ /\ bill.transaction_type = "CREDIT"
       /\ bill.account_type = "REVENUE"
       /\ bill.is_debit = FALSE

\* C5: after any sequence of uploads (failed OCR included), categorize_bill
\* and recategorize_bills runs and fix_income_bills runs, every stored bill
\* is DEBIT, EXPENSE and is_debit, or CREDIT, REVENUE and not is_debit.
C5_RoleFieldsAgree == \A i \in DOMAIN bills : RoleConsistent(bills[i])

\* fix_income_bills has turned a bill that its upload saved as DEBIT into
\* CREDIT
C5_Witness ==
    \E p \in Uploads :
        /\ proc[p].pc = "done"
        /\ proc[p].instance.transaction_type = "DEBIT"
        /\ Stored(p)
        /\ bills[p].transaction_type = "CREDIT"

\* C6: the upload makes the bill REVENUE/CREDIT/not is_debit exactly when the
\* vendor name matches the user's company name or the user's tax ID is found
\* in the OCR text, and EXPENSE/DEBIT/is_debit otherwise; the tax ID is
\* searched only when the vendor name did not match.
C6_RoleByVendorOrTaxId ==
    job.phase = "out" =>
        /\ IF \/ VendorNameMatch(job.vendor, job.user.company_name)
              \/ PanVatFound(job.user.pan_vat_number, job.ocr_text)
           THEN /\ job.instance.transaction_type = "CREDIT"
                /\ job.instance.account_type = "REVENUE"
                /\ job.instance.is_debit = FALSE
           ELSE /\ job.instance.transaction_type = "DEBIT"
                /\ job.instance.account_type = "EXPENSE"
                /\ job.instance.is_debit = TRUE
        /\ job.pan_searched => ~VendorNameMatch(job.vendor, job.user.company_name)

\* The vendor name matched for a user whose tax ID stands in the text too
C6_Witness ==
    /\ job.phase = "out"
    /\ VendorNameMatch(job.vendor, job.user.company_name)
    /\ PanVatFound(job.user.pan_vat_number, job.ocr_text)
    /\ job.instance.transaction_type = "CREDIT"
    /\ ~job.pan_searched

\* The vendor-name match as stated: on the trimmed, lower-cased names, an
\* exact match, a match after the legal suffixes are stripped, or one name
\* a prefix of the other with the contained name of 5 or more characters
StatedNameMatch(vendor, company) ==
    \/ vendor = company
    \/ Strip(RemoveBusinessSuffixes(vendor)) = Strip(RemoveBusinessSuffixes(company))
    \/ StartsWith(vendor, company) /\ Len(company) >= min_match_length
    \/ StartsWith(company, vendor) /\ Len(vendor) >= min_match_length

\* C23: for a vendor free of recipient phrases and a user with a company
\* name and no tax ID, the upload makes the bill CREDIT exactly when the
\* names match exactly, match after suffix stripping, or one is a prefix of
\* the other with at least 5 characters; an exact match needs no minimum
\* length.
C23_NameMatchAsStated ==
    (/\ job.phase = "out"
     /\ Truthy(job.vendor)
     /\ Truthy(job.user.company_name)
     /\ job.user.pan_vat_number = None
     /\ ~ \E indicator \in RecipientIndicators :
              Contains(Lower(Strip(job.vendor)), indicator))
    => (job.instance.transaction_type = "CREDIT"
            <=> StatedNameMatch(Lower(Strip(job.vendor)),
                                Lower(Strip(job.user.company_name))))

\* The accounting role of a bill
RoleOf(bill) == <<bill.transaction_type, bill.account_type, bill.is_debit>>

\* The category an upload commits for the vendor and text of a bill
UploadCategory(bill) ==
    LET csv == categorize_by_keywords(VendorMappings, Categories,
                                      bill.vendor, bill.ocr_text)
    IN  IF csv.category # NoCategory /\ csv.confidence > Pct(30)
        THEN csv.category ELSE NoCategory

\* C28: a run of categorize_bill on a stored bill (the recategorize view,
\* bulk_categorize_bills) or of the recategorize_bills command leaves the
\* transaction_type, account_type and is_debit of every bill as they were.
C28_CategorizationKeepsRole ==
    [][(\/ \E i \in DOMAIN bills, ml \in {NoModel, TravelModel} :
             CategorizeStoredBill(i, ml)
        \/ \E force \in BOOLEAN, dry_run \in BOOLEAN :
             RecategorizeBills(force, dry_run))
       => /\ DOMAIN bills' = DOMAIN bills
          /\ \A i \in DOMAIN bills : RoleOf(bills'[i]) = RoleOf(bills[i])]_vars

\* A bill in the REVENUE/CREDIT role carries a category that its upload did
\* not give it
C28_Witness ==
    \E i \in DOMAIN bills :
        /\ RoleOf(bills[i]) = <<"CREDIT", "REVENUE", FALSE>>
        /\ bills[i].category # NoCategory
        /\ bills[i].category # UploadCategory(bills[i])

-----------------------------------------------------------------------------
(* Categorization threshold *)

\* C7: every operation that assigns a category automatically writes it only
\* with a confidence above 0.3, so no stored bill carries a category with a
\* confidence of 0.3 or less.
C7_CategoryOnlyAboveThreshold ==
    \A i \in DOMAIN bills :
        bills[i].category # NoCategory => bills[i].confidence_score > Pct(30)

-----------------------------------------------------------------------------
(* The categorization cascade *)

\* The classifier can be asked: the service has one and its model is loaded
Available == job.service.use_ml /\ job.service.ml_categorizer /\ job.ml.loaded

\* The first stage returned a category with confidence above 0.8
CsvIsSure == job.csv.category # NoCategory /\ job.csv.confidence > Pct(80)

\* The vendor map has an entry for the trimmed, lower-cased vendor, set to
\* confidence 0.95, for a category that exists
ExactHitAt95(i) ==
    /\ job.bill.vendor # None
    /\ job.service.vendor_mappings[i].vendor = Strip(Lower(job.bill.vendor))
    /\ job.service.vendor_mappings[i].confidence = Pct(95)
    /\ \E k \in 1..Len(Categories) :
           Categories[k].name = job.service.vendor_mappings[i].category

\* C8: when categorize_by_keywords returns a category with confidence above
\* 0.8, categorize_bill uses that category at that confidence with method
\* csv_mapping and does not ask the classifier; the classifier is asked only
\* when it is available and that confidence is at most 0.8 or there is no
\* category; an exact vendor-map hit set to 0.95 gives the mapped category,
\* 0.95 and csv_mapping.
C8_SureMappingSkipsClassifier ==
    job.phase = "out" =>
        /\ CsvIsSure =>
               /\ job.result.category = job.csv.category
               /\ job.result.confidence = job.csv.confidence
               /\ job.result.method = "csv_mapping"
               /\ ~job.result.ml_consulted
               /\ job.saved.category = job.csv.category
               /\ job.saved.confidence_score = job.csv.confidence
        /\ job.result.ml_consulted =>
               /\ Available
               /\ job.csv.confidence <= Pct(80) \/ job.csv.category = NoCategory
        /\ \A i \in 1..Len(job.service.vendor_mappings) :
               ExactHitAt95(i) =>
                   /\ job.result.category = job.service.vendor_mappings[i].category
                   /\ job.result.confidence = Pct(95)
                   /\ job.result.method = "csv_mapping"

\* A loaded classifier that predicts another category was not asked, because
\* the vendor map has the vendor at 0.95
C8_Witness ==
    /\ job.phase = "out"
    /\ Available
    /\ ~job.ml.raises
    /\ job.ml.category = "Travel"
    /\ job.ml.confidence = Pct(100)
    /\ \E i \in 1..Len(job.service.vendor_mappings) : ExactHitAt95(i)
    /\ job.result.category = "Food"
    /\ ~job.result.ml_consulted

\* The classifier was asked, answered with confidence above 0.5, and its
\* category is the first stage's category
Agreement ==
    /\ job.phase = "out"
    /\ job.result.ml_consulted
    /\ ~job.ml.raises
    /\ job.ml.category # NoCategory
    /\ job.ml.confidence > Pct(50)
    /\ job.ml.category = job.csv.category

\* C9 as stated: on agreement the result is the common category with
\* confidence min(max(map_conf, model_conf) * 1.1, 0.99) and method
\* csv_ml_agreement; that confidence is at most 0.99 and not lower than
\* either input confidence.
C9_BoostNeverBelowInputs ==
    Agreement =>
        /\ job.result.category = job.ml.category
        /\ job.result.confidence =
               Min((Max(job.csv.confidence, job.ml.confidence) * 11) \div 10, Pct(99))
        /\ job.result.method = "csv_ml_agreement"
        /\ job.result.confidence <= Pct(99)
        /\ job.result.confidence >= job.csv.confidence
        /\ job.result.confidence >= job.ml.confidence

\* C9, amended: on agreement the result is the common category with
\* confidence min(max(map_conf, model_conf) * 1.1, 0.99) and method
\* csv_ml_agreement; that confidence is at most 0.99 and not lower than
\* either input confidence capped at 0.99.
C9_BoostNeverBelowCappedInputs ==
    Agreement =>
        /\ job.result.category = job.ml.category
        /\ job.result.confidence =
               Min((Max(job.csv.confidence, job.ml.confidence) * 11) \div 10, Pct(99))
        /\ job.result.method = "csv_ml_agreement"
        /\ job.result.confidence <= Pct(99)
        /\ job.result.confidence >= Min(job.csv.confidence, Pct(99))
        /\ job.result.confidence >= Min(job.ml.confidence, Pct(99))

\* The classifier agreed with probability 1.0 and the result is 0.99
C9_Witness ==
    /\ Agreement
    /\ job.ml.confidence = Pct(100)
    /\ job.result.confidence = Pct(99)
    /\ job.result.method = "csv_ml_agreement"

\* The classifier was asked, answered with confidence above 0.5, and its
\* category is not the first stage's category
Disagreement ==
    /\ job.phase = "out"
    /\ job.result.ml_consulted
    /\ ~job.ml.raises
    /\ job.ml.category # NoCategory
    /\ job.ml.confidence > Pct(50)
    /\ job.ml.category # job.csv.category

\* C10: on disagreement the model's category and confidence are used, with
\* method ml_model, when the model's confidence is strictly greater than the
\* map's, and the map's category and confidence otherwise; the category
\* chosen always comes with its own confidence.
C10_HigherConfidenceWins ==
    Disagreement =>
        /\ IF job.ml.confidence > job.csv.confidence
           THEN /\ job.result.category = job.ml.category
                /\ job.result.confidence = job.ml.confidence
                /\ job.result.method = "ml_model"
           ELSE /\ job.result.category = job.csv.category
                /\ job.result.confidence = job.csv.confidence
        /\ \/ /\ job.result.category = job.ml.category
              /\ job.result.confidence = job.ml.confidence
           \/ /\ job.result.category = job.csv.category
              /\ job.result.confidence = job.csv.confidence

\* The map's category was kept against a classifier that is exactly as
\* confident about another category
C10_Witness ==
    /\ Disagreement
    /\ job.csv.category # NoCategory
    /\ job.ml.confidence = job.csv.confidence
    /\ job.result.category = job.csv.category
    /\ job.saved.category = job.csv.category

\* The classifier was asked and answered with no category or with a
\* confidence below 0.5
WeakPrediction ==
    /\ job.phase = "out"
    /\ job.result.ml_consulted
    /\ ~job.ml.raises
    /\ job.ml.category = NoCategory \/ job.ml.confidence < Pct(50)

\* The vendor map has an entry, for a category that exists, that equals the
\* trimmed, lower-cased vendor, is part of it or contains it
MapMatched ==
    /\ Truthy(job.bill.vendor)
    /\ \E i \in 1..Len(job.service.vendor_mappings) :
           /\ \/ Contains(Strip(Lower(job.bill.vendor)),
                          job.service.vendor_mappings[i].vendor)
              \/ Contains(job.service.vendor_mappings[i].vendor,
                          Strip(Lower(job.bill.vendor)))
           /\ \E k \in 1..Len(Categories) :
                  Categories[k].name = job.service.vendor_mappings[i].category

\* C11: a prediction with confidence below 0.5, or without category, is
\* ignored: the result is the vendor-map result when the map matched and the
\* keyword scorer's result otherwise, no category is assigned when neither
\* gave one, and the bill gets the model's category only when that is the
\* first stage's own category above the threshold.
C11_WeakPredictionIgnored ==
    WeakPrediction =>
        /\ job.result.category = job.csv.category
        /\ job.csv.category # NoCategory =>
               job.result.confidence = job.csv.confidence
        /\ IF MapMatched
           THEN job.csv.tier \in {"exact", "partial"}
           ELSE job.csv = IF TextIsEmpty(job.bill.vendor, job.bill.ocr_text)
                          THEN [category |-> NoCategory, confidence |-> 0,
                                tier |-> "none"]
                          ELSE KeywordFallback(Categories, job.bill.vendor,
                                               job.bill.ocr_text)
        /\ IF job.csv.category # NoCategory /\ job.csv.confidence > Pct(30)
           THEN /\ job.saved.category = job.csv.category
                /\ job.saved.confidence_score = job.csv.confidence
           ELSE job.saved = job.bill

\* A prediction of Travel at 0.4 was ignored for the map's Food
C11_Witness ==
    /\ WeakPrediction
    /\ job.ml.category = "Travel"
    /\ job.ml.confidence = Pct(40)
    /\ MapMatched
    /\ job.result.category = "Food"
    /\ job.result.method = "csv_fallback"
    /\ job.saved.category = "Food"

\* A confidence lies in [0, 1]
InUnitInterval(confidence) == 0 <= confidence /\ confidence <= Unit

\* C12: every confidence that categorize_by_keywords returns, that
\* categorize_bill computes, and that is stored in confidence_score lies in
\* [0, 1], whatever the vendor map and the classifier's output.
C12_ConfidencesInUnitInterval ==
    job.phase = "out" =>
        /\ InUnitInterval(job.csv.confidence)
        /\ InUnitInterval(job.result.confidence)
        /\ job.saved.confidence_score # NoScore =>
               InUnitInterval(job.saved.confidence_score)

\* C13: a second categorize_bill on the same bill, with nothing retrained
\* or reloaded in between, gives the same category, confidence and method
\* as the first, although the first has written category,
\* is_auto_categorized and confidence_score.
C13_SecondCallSameResult ==
    job.phase = "again" =>
        /\ job.again.category = job.result.category
        /\ job.again.confidence = job.result.confidence
        /\ job.again.method = job.result.method
        /\ job.saved_again = job.saved

\* The first call wrote the model's category, and the second call chose it
\* again
C13_Witness ==
    /\ job.phase = "again"
    /\ job.result.method = "ml_model"
    /\ job.saved # job.bill
    /\ job.saved.category = job.ml.category
    /\ job.again = job.result

\* The trimmed, lower-cased vendor of the job's bill
VendorLower == Strip(Lower(job.bill.vendor))

\* A map entry whose category has a row
RowExists(i) ==
    \E k \in 1..Len(Categories) :
        Categories[k].name = job.service.vendor_mappings[i].category

\* The map entries the exact tier answers with
ExactKeys ==
    {i \in 1..Len(job.service.vendor_mappings) :
        job.service.vendor_mappings[i].vendor = VendorLower /\ RowExists(i)}

\* The map entries the partial tier can answer with
PartialKeys ==
    {i \in 1..Len(job.service.vendor_mappings) :
        /\ \/ Contains(VendorLower, job.service.vendor_mappings[i].vendor)
           \/ Contains(job.service.vendor_mappings[i].vendor, VendorLower)
        /\ RowExists(i)}

\* C24: for a bill with a vendor, categorize_by_keywords answers from the
\* partial tier exactly when the exact tier has no answer and some map key
\* with an existing category is part of the vendor or contains it; the
\* answer is such a key's category at 0.9 times its confidence; and the
\* keyword scorer answers exactly when neither tier has an answer.
C24_PartialTierAfterExact ==
    (job.phase = "out" /\ Truthy(job.bill.vendor))
    => /\ job.csv.tier = "exact" <=> ExactKeys # {}
       /\ job.csv.tier = "partial" <=> (ExactKeys = {} /\ PartialKeys # {})
       /\ job.csv.tier = "partial" =>
              \E i \in PartialKeys :
                  /\ job.csv.category = job.service.vendor_mappings[i].category
                  /\ 10 * job.csv.confidence
                         = 9 * job.service.vendor_mappings[i].confidence
       /\ job.csv.tier = "keyword" <=> (ExactKeys = {} /\ PartialKeys = {})

\* The vendor is a key of the map whose category has no row, and the answer
\* came from another key that is part of the vendor
C24_Witness ==
    /\ job.phase = "out"
    /\ Truthy(job.bill.vendor)
    /\ \E i \in 1..Len(job.service.vendor_mappings) :
           job.service.vendor_mappings[i].vendor = VendorLower /\ ~RowExists(i)
    /\ job.csv.tier = "partial"
    /\ job.csv.category = "Food"
    /\ job.csv.confidence = Pct(54)

\* The sum of keyword_length + 10 over the keywords, by position in S, of
\* a category
RECURSIVE WeightOver(_, _)
WeightOver(category, S) ==
    IF S = {} THEN 0
    ELSE LET k == CHOOSE k \in S : TRUE
         IN  Len(category.keywords[k]) + 10 + WeightOver(category, S \ {k})

\* The stated score of the k-th category row for the job's bill:
\* (sum of keyword_length/10 + 1 over its keywords that occur in the text)
\* divided by the number of its keywords
StatedScore(k) ==
    (Unit * WeightOver(Categories[k],
                       {n \in DOMAIN Categories[k].keywords :
                           KeywordInText(Categories[k].keywords[n],
                                         job.bill.vendor, job.bill.ocr_text)}))
    \div (10 * Len(Categories[k].keywords))

\* The category rows with a keyword list
Scored == {k \in DOMAIN Categories : Categories[k].keywords # <<>>}

\* C25: when the keyword scorer answers, its category is the one with the
\* highest stated score, the first row of several with that score, at
\* confidence min(score * 0.8, 0.95); with no keyword in the text it is no
\* category at confidence 0; the confidence is never above 0.95.
C25_KeywordScorer ==
    (job.phase = "out" /\ job.csv.tier = "keyword")
    => /\ job.csv.confidence <= Pct(95)
       /\ IF \A k \in Scored : StatedScore(k) = 0
          THEN job.csv.category = NoCategory /\ job.csv.confidence = 0
          ELSE \E k \in Scored :
                   /\ job.csv.category = Categories[k].name
                   /\ job.csv.confidence
                          = Min((StatedScore(k) * 8) \div 10, Pct(95))
                   /\ \A j \in Scored :
                          \/ StatedScore(j) < StatedScore(k)
                          \/ StatedScore(j) = StatedScore(k) /\ k <= j

\* Two categories have the same positive score and the scorer answered
\* with the first of them
C25_Witness ==
    /\ job.phase = "out"
    /\ job.csv.tier = "keyword"
    /\ \E k \in Scored : \E j \in Scored :
           /\ k < j
           /\ StatedScore(k) = StatedScore(j)
           /\ StatedScore(k) > 0
           /\ job.csv.category = Categories[k].name

\* The job's bill as BillSerializer.create commits it: the category of
\* categorize_by_keywords under the 0.3 threshold, then the role, then save
Uploaded ==
    BillSave(Prepared(job.bill,
                      categorize_by_keywords(job.service.vendor_mappings,
                                             Categories, job.bill.vendor,
                                             job.bill.ocr_text),
                      [is_own_company |-> FALSE]))

\* The service has no trained classifier to ask
NoClassifier ==
    ~(job.service.use_ml /\ job.service.ml_categorizer /\ job.ml.loaded)

\* C30: without a trained classifier categorize_bill commits the category,
\* the confidence and the automatic flag that the upload commits for the
\* same vendor, text and vendor map, and does not call the classifier.
C30_UploadEqualsCategorizeBill ==
    (job.phase = "out" /\ NoClassifier)
    => /\ job.saved.category = Uploaded.category
       /\ job.saved.confidence_score = Uploaded.confidence_score
       /\ job.saved.is_auto_categorized = Uploaded.is_auto_categorized
       /\ ~job.result.ml_consulted

\* Without a classifier both paths commit a category that the keyword
\* scorer found with a confidence between the two thresholds
C30_Witness ==
    /\ job.phase = "out"
    /\ NoClassifier
    /\ job.csv.tier = "keyword"
    /\ job.csv.confidence > Pct(30)
    /\ job.csv.confidence <= Pct(80)
    /\ job.saved.category = job.csv.category
    /\ Uploaded.category = job.csv.category

-----------------------------------------------------------------------------
(* The classifier artifact *)

LoaderAtRest == job.phase = "art" /\ job.loader.pc \in {"ready", "categorized"}

\* C14: when there is no categorizer (its construction failed), the artifact
\* could not be loaded (no model, or no vectorizer), or the classifier
\* raises, categorize_bill completes with exactly the result of
\* categorize_by_keywords, written to the bill only above the 0.3 threshold.
C14_UnusableClassifierFallsBack ==
    (/\ job.phase = "art"
     /\ job.loader.pc = "categorized"
     /\ \/ ~job.loader.exists
        \/ job.loader.model = "none"
        \/ job.loader.vectorizer = "none"
        \/ job.ml.raises)
    => /\ job.result.category = job.csv.category
       /\ job.csv.category # NoCategory =>
              job.result.confidence = job.csv.confidence
       /\ IF job.csv.category # NoCategory /\ job.csv.confidence > Pct(30)
          THEN /\ job.saved.category = job.csv.category
               /\ job.saved.confidence_score = job.csv.confidence
          ELSE job.saved = job.bill

\* The model was loaded but the vectorizer file is unreadable: the bill was
\* categorized by its keywords alone, below the threshold
C14_Witness ==
    /\ job.phase = "art"
    /\ job.loader.pc = "categorized"
    /\ job.loader.model # "none"
    /\ job.loader.vectorizer = "none"
    /\ job.disk.vectorizer = "corrupt"
    /\ job.result.ml_consulted
    /\ job.result.category = "Travel"
    /\ job.result.method = "csv_fallback"
    /\ job.saved = job.bill

\* C15: after a load_model attempt the categorizer's model (with its label
\* encoders) and vectorizer are either all from one artifact or all as they
\* were before the attempt, and an attempt that returned False changed
\* nothing.
C15_LoadIsAllOrNothing ==
    (LoaderAtRest /\ job.loader.ret # "none")
    => /\ \/ /\ job.loader.model = job.loader.vectorizer
             /\ job.loader.model # "none"
          \/ /\ job.loader.model = job.loader.before_model
             /\ job.loader.vectorizer = job.loader.before_vectorizer
       /\ job.loader.ret = "False" =>
              /\ job.loader.model = job.loader.before_model
              /\ job.loader.vectorizer = job.loader.before_vectorizer

\* train_model has ended without a complete save
TrainingFailed ==
    /\ job.phase = "art"
    /\ \/ job.trainer.pc = "raised"
       \/ job.trainer.pc = "returned" /\ job.trainer.ret = "False"
       \/ job.trainer.pc = "returned" /\ job.trainer.failed

-----------------------------------------------------------------------------
(* Amount extraction *)

\* The fields of the text in which the pattern of a label finds an amount
AmountsLabeled(label) ==
    {i \in DOMAIN job.text : /\ job.text[i].label = label
                             /\ AmountMatches(job.text[i])}

\* The amount written in a field: its whole number, separators dropped
Written(i) == DecimalOf(job.text[i].body)

\* C19: for every text with a labeled Grand Total amount, extract_amount
\* returns exactly the amount written after the first such label, whatever
\* other amounts the text holds.
C19_GrandTotalReturnedExactly ==
    (job.phase = "amount" /\ AmountsLabeled("grand total") # {})
    => \E i \in AmountsLabeled("grand total") :
           /\ \A k \in AmountsLabeled("grand total") : i <= k
           /\ job.amount = Written(i)

-----------------------------------------------------------------------------
(* Vendor extraction *)

\* The recipient and billing-context phrases
RecipientPhrases ==
    { <<"b", "i", "l", "l", " ", "t", "o">>,
      <<"i", "s", "s", "u", "e", "d", " ", "t", "o">>,
      <<"b", "i", "l", "l", "e", "d", " ", "t", "o">>,
      <<"s", "o", "l", "d", " ", "t", "o">>,
      <<"a", "t", "t", "e", "n", "t", "i", "o", "n">>,
      <<"c", "u", "s", "t", "o", "m", "e", "r">>,
      <<"c", "l", "i", "e", "n", "t">> }

-----------------------------------------------------------------------------
(* Date extraction *)

\* C21: a date that extract_date returns with a year from 2070 to 2100 is
\* the conversion of a Bikram Sambat date, never that date at face value.
C21_NoBikramSambatAtFaceValue ==
    (job.phase = "date" /\ job.date.found
     /\ job.date.year >= 2070 /\ job.date.year <= 2100)
    => job.date.from_bs

\* The three fields of a date string written with two separators, <<>> for
\* any other text
DateFields ==
    IF job.text.kind # "numeric" THEN <<>>
    ELSE LET str == job.text.str
             seps == {k \in DOMAIN str : str[k] \in {"-", "/"}}
         IN  IF Cardinality(seps) # 2 THEN <<>>
             ELSE LET j == CHOOSE k \in seps : \A n \in seps : k <= n
                      k == CHOOSE k \in seps : \A n \in seps : n <= k
                  IN  << SubSeq(str, 1, j - 1), SubSeq(str, j + 1, k - 1),
                         SubSeq(str, k + 1, Len(str)) >>

\* The year written in a field
YearWritten(field) == DecimalOf(field) \div 100

\* C27: a date extract_date returns for a separator-based string has the
\* year 2000 + yy when the string ends in a two-digit year yy, and the
\* year written when the string holds a four-digit year outside 2070-2100.
C27_YearPromotedOrKept ==
    (job.phase = "date" /\ job.date.found /\ DateFields # <<>>)
    => /\ (Len(DateFields[3]) = 2 /\ Len(DateFields[1]) <= 2)
              => job.date.year = 2000 + YearWritten(DateFields[3])
       /\ \A n \in {1, 3} :
              (Len(DateFields[n]) = 4
               /\ ~(YearWritten(DateFields[n]) \in 2070..2100))
              => job.date.year = YearWritten(DateFields[n])

-----------------------------------------------------------------------------
(* Tax extraction: SpecTax *)

\* The number written on the first line of the text with one of the labels
\* that starts with a number, NoAmount when there is none
TaxWritten(labels) ==
    LET hits == {i \in DOMAIN job.text :
                    /\ job.text[i].label \in labels
                    /\ DigitValue(job.text[i].body[1]) >= 0}
    IN  IF hits = {} THEN NoAmount
        ELSE DecimalOf(AmountGroup(
                 job.text[CHOOSE i \in hits : \A k \in hits : i <= k].body))

\* C26: when the text has a CGST amount and an SGST amount, an amount of 0
\* included, extract_tax returns their sum; when it has no number after any
\* tax label, it returns None.
C26_SumWheneverBothPresent ==
    job.phase = "tax"
    => LET cgst == TaxWritten({<<"cgst", "amt:">>})
           sgst == TaxWritten({<<"sgst", "amt:">>})
       IN  /\ (cgst # NoAmount /\ sgst # NoAmount) => job.tax = cgst + sgst
           /\ (\A i \in DOMAIN job.text :
                  /\ DigitValue(job.text[i].body[1]) < 0
                  /\ job.text[i].label # <<"vat", "13%">>)
              => job.tax = NoAmount

====
